---------------------------- MODULE Spec2Model ----------------------------
(***************************************************************************)
(* A model of RpBot's provisioning engine: the Server record and its       *)
(* rollback / snapshot methods (src/src/database/server.rs), the setup     *)
(* phases (src/src/setup_command/*.rs) and the /universe setup             *)
(* orchestrator (src/src/universe/setup/setup_sub_command.rs).             *)
(*                                                                         *)
(* The remote platform is a pair of sets of live ids (roles, channels).    *)
(* Every remote or store call is logged in `log`, in the order the code    *)
(* issues it, with its outcome.                                            *)
(***************************************************************************)
EXTENDS Integers, Sequences, FiniteSets, TLC

VARIABLES
    config,     \* the Server value the running handler owns (`server` / `self`)
    snapshot,   \* the rollback baseline (`server_snapshot` / `snapshot`)
    store,      \* what ConfigStore holds for this guild
    roles,      \* ids of the roles live on the platform
    channels,   \* ids of the channels and categories live on the platform
    nextId,     \* the next snowflake the platform hands out
    pc,         \* position of the running handler
    loc,        \* the running handler's local variables
    log,        \* calls issued so far by the current invocation
    ret,        \* the value the last handler returned
    pre,        \* the state at the start of the current invocation
    budget      \* what is left of the model's bounds

vars == <<config, snapshot, store, roles, channels, nextId, pc, loc, log, ret, pre, budget>>

---------------------------------------------------------------------------
(* Bounds of the model *)

\* Rollback harness: how many fields of config and snapshot may differ.
MaxDiff == 2
\* Snapshot harness: how many reference fields of config may be populated.
MaxPopulated == 2

---------------------------------------------------------------------------
(* Option<Id>: server.rs 18-33.  None is a record too, so that TLC can     *)
(* compare it with Some values.                                            *)

None == [id |-> 0, id_type |-> "None"]

IsSome(o) == o.id_type # "None"

Id(id, id_type) == [id |-> id, id_type |-> id_type]

\* impl PartialEq for Id (server.rs 171-175) under Option's derived equality:
\* None = None, Some(a) = Some(b) iff a.id = b.id; id_type is not compared.
OptEq(a, b) ==
    IF IsSome(a) /\ IsSome(b) THEN a.id = b.id
    ELSE IsSome(a) = IsSome(b)

---------------------------------------------------------------------------
(* struct Server: server.rs 101-144 *)

RoleFields == <<"admin_role_id", "moderator_role_id", "spectator_role_id", "player_role_id">>

\* The order of Server::rollback's `fields` array (server.rs 375-390).
RollbackFields ==
    << "admin_role_id", "moderator_role_id", "spectator_role_id", "player_role_id",
       "admin_category_id", "nrp_category_id", "rp_category_id", "road_category_id",
       "rp_wiki_channel_id", "log_channel_id", "moderation_channel_id",
       "commands_channel_id", "nrp_general_channel_id", "rp_character_channel_id" >>

Range(s) == {s[i] : i \in 1..Len(s)}

RoleFieldSet == Range(RoleFields)
RollbackFieldSet == Range(RollbackFields)

\* Every Option<Id> field of Server, in declaration order (server.rs 114-143).
RefFields ==
    << "admin_role_id", "moderator_role_id", "spectator_role_id", "player_role_id",
       "everyone_role_id",
       "admin_category_id", "nrp_category_id", "rp_category_id", "road_category_id",
       "rp_wiki_channel_id", "log_channel_id", "moderation_channel_id",
       "commands_channel_id", "nrp_general_channel_id", "rp_character_channel_id" >>

RefFieldSet == Range(RefFields)

CategoryFieldSet == {"admin_category_id", "nrp_category_id", "rp_category_id", "road_category_id"}

ChannelFieldSet == RefFieldSet \ (RoleFieldSet \cup {"everyone_role_id"} \cup CategoryFieldSet)

\* _id, universe_id, server_id (server.rs 104-111)
MetaFields == {"_id", "universe_id", "server_id"}

ServerFields == RefFieldSet \cup MetaFields

\* The Discord guild id of the one guild of the model (Server::server_id).
ServerId == 1

\* The IdType the setup phases store in each field
\* (partial_setup.rs 265-270, complementary_setup.rs 353-361).
KindOf(f) ==
    IF f \in RoleFieldSet \cup {"everyone_role_id"} THEN "Role"
    ELSE IF f \in CategoryFieldSet THEN "Category"
    ELSE "Channel"

\* impl Default for Server (server.rs 146-169), linked to the model's guild.
DefaultServer ==
    [f \in ServerFields |-> IF f \in MetaFields THEN ServerId ELSE None]

\* Server::clone (server.rs 180-201): a field by field copy.
Clone(self) == [f \in ServerFields |-> self[f]]

\* Position of a field in RefFields: the harnesses derive distinct ids from it.
FieldIndex(f) == CHOOSE i \in 1..Len(RefFields) : RefFields[i] = f

---------------------------------------------------------------------------
(* The log of calls *)

\* op: the call; id: the id it targets or returns (0 if none); ok: its outcome;
\* what: the field, tier or step it serves; arg: its argument of interest.
\* parent: a created channel's category; positions: a reorder call's list.
Call(op, id, ok, what, arg) ==
    [op |-> op, id |-> id, ok |-> ok, what |-> what, arg |-> arg,
     parent |-> 0, positions |-> <<>>]

CallsOf(l, ops) == SelectSeq(l, LAMBDA c : c.op \in ops)

DeleteOps == {"delete_role", "delete_channel"}
CreateOps == {"create_role", "create_channel"}

---------------------------------------------------------------------------
(* IdExt::delete for Option<Id> (server.rs 53-92) *)

\* The remote call `delete` dispatches to (server.rs 69-88): a Role id goes to
\* delete_role, every other id_type to delete_channel.
DeleteOp(o) == IF o.id_type = "Role" THEN "delete_role" ELSE "delete_channel"

\* The value of *self after delete (server.rs 64, 74, 82): None stays None
\* (Err "id__nothing_to_delete"), a successful delete stores None, a failed
\* one leaves the id.
AfterDelete(o, ok) == IF IsSome(o) /\ ok THEN None ELSE o

---------------------------------------------------------------------------
(* Server::rollback (server.rs 372-415) *)

\* The filter of server.rs 395: `**field != *snapshot_field`.
FieldDiffers(self, snap, f) == ~OptEq(self[f], snap[f])

\* The fields rollback calls delete on (server.rs 392-401).
DeleteFutures(self, snap) ==
    SelectSeq(RollbackFields, LAMBDA f : FieldDiffers(self, snap, f))

\* A rollback that deletes the baseline's resource instead of the current one.
RollbackTarget_snapshot(self, snap, f) == snap[f]

\* The id a rollback delete targets: field.delete(ctx) acts on the current
\* value of the field (server.rs 396).
RollbackTarget(self, snap, f) == self[f]

\* A rollback that stops at the first failed delete instead of joining all.
RollbackCalls_abort(self, snap, fails) ==
    LET futs == SelectSeq(DeleteFutures(self, snap), LAMBDA f : IsSome(self[f]))
        bad == {i \in 1..Len(futs) : futs[i] \in fails}
        last == IF bad = {} THEN Len(futs) ELSE CHOOSE i \in bad : \A j \in bad : i <= j
    IN  [i \in 1..last |->
            Call(DeleteOp(self[futs[i]]), self[futs[i]].id, futs[i] \notin fails, futs[i], "rollback")]

\* The remote calls join_all issues (server.rs 403), in the order the futures
\* are first polled; `fails` are the fields whose remote delete fails.  A None
\* field returns Err without a remote call (server.rs 64).
RollbackCalls(self, snap, fails) ==
    LET futs == SelectSeq(DeleteFutures(self, snap),
                          LAMBDA f : IsSome(RollbackTarget(self, snap, f)))
    IN  [i \in 1..Len(futs) |->
            Call(DeleteOp(RollbackTarget(self, snap, futs[i])),
                 RollbackTarget(self, snap, futs[i]).id,
                 futs[i] \notin fails, futs[i], "rollback")]

\* self after rollback: only IdExt::delete writes the fields.
RollbackServer(self, snap, fails) ==
    [f \in ServerFields |->
        IF f \in Range(DeleteFutures(self, snap))
        THEN AfterDelete(self[f], f \notin fails)
        ELSE self[f]]

\* The results rollback logs as errors (server.rs 404-414): a failed remote
\* delete, or a delete on None.
RollbackErrors(self, snap, fails) ==
    {f \in Range(DeleteFutures(self, snap)) : ~IsSome(self[f]) \/ f \in fails}

\* The ids a sequence of calls removed from the platform.
Deleted(calls, op) == {calls[i].id : i \in {j \in 1..Len(calls) : calls[j].op = op /\ calls[j].ok}}

---------------------------------------------------------------------------
(* Server::snaphot (server.rs 426-487) *)

\* role_exists / channel_exists (server.rs 433, 451)
role_exists(roleList, id) == id \in roleList

\* A channel check that never reports a channel as gone.
channel_exists_always(channelList, id) == TRUE

channel_exists(channelList, id) == id \in channelList

\* server.rs 435-484: a Some field whose id is not in the matching list
\* becomes None; role fields (everyone included) are looked up in the role
\* list, category and channel fields in the channel list.
Snaphot(self, roleList, channelList) ==
    [f \in ServerFields |->
        IF f \in MetaFields THEN Clone(self)[f]
        ELSE IF ~IsSome(self[f]) THEN Clone(self)[f]
        ELSE IF f \in RoleFieldSet \cup {"everyone_role_id"}
             THEN (IF role_exists(roleList, self[f].id) THEN self[f] ELSE None)
             ELSE (IF channel_exists(channelList, self[f].id) THEN self[f] ELSE None)]

---------------------------------------------------------------------------
(* The guild before the bot provisions anything *)

\* guild_id.everyone_role(): the @everyone role carries the guild's id
\* (partial_setup.rs 75).
EveryoneRole == ServerId

\* bot_member.roles[0], the bot's own role (partial_setup.rs 191-195).
BotRole == ServerId + 1

\* A role and a channel the guild's users created themselves.
UserRole == ServerId + 2
UserChannel == ServerId + 3

FirstFreshId == ServerId + 4

---------------------------------------------------------------------------
(* Bounds of the setup model *)

\* Remote or store calls that fail although they could have succeeded.
MaxFaults == 2
\* Invocations of the setup command.
MaxRuns == 2
\* Provisioned resources a user deletes by hand between two invocations.
MaxExtDeletes == 1

---------------------------------------------------------------------------
(* Outcomes of remote and store calls.  A call that cannot succeed (a     *)
(* fetch or delete of an id the platform does not hold) fails; any other  *)
(* call succeeds, or fails at the cost of one fault of the budget.         *)

FaultCost(can, ok) == IF can /\ ~ok THEN 1 ELSE 0

Spend(n) == [budget EXCEPT !.faults = @ - n]

---------------------------------------------------------------------------
(* Local variables of the running invocation *)

NoResult == [ok |-> TRUE, key |-> "none"]

InitLoc ==
    [ setup_type |-> "none",            \* _setup's argument
      full |-> FALSE,                   \* the phase was called by full_setup
      gate |-> "none",                  \* none | shown | continued
      by |-> [user |-> "none", channel |-> "none"],  \* whose interaction the collector yielded
      ignored |-> 0,                    \* interactions the collector's filter dropped
      rev |-> "current",                \* current: universe/setup + setup_command/*_setup.rs;
                                        \* handler: setup_command/handler.rs
      h_next |-> "none",                \* where handler.rs's partial_setup resumes
      i |-> 1,                          \* the resolution a phase has reached
      res |-> [f \in RefFieldSet |-> 0],\* admin_role, ..., wiki_channel_result: id, 0 for Err
      roles_created |-> <<>>,
      errors |-> <<>>,
      road_created |-> FALSE,
      created_categories |-> <<>>,
      created_channels |-> <<>>,
      todo |-> <<>>,                    \* what a delete loop still has to visit
      after |-> <<>>,                   \* the error the loop's end returns
      abort |-> FALSE,                  \* the loop returns at the first failed delete
      partial_setup_result |-> [ok |-> TRUE, key |-> <<>>, roles |-> <<>>, channels |-> <<>>],
      result |-> [ok |-> TRUE, key |-> <<>>] ]  \* the value a phase returns

Ok(key) == [ok |-> TRUE, key |-> key]
Err(key) == [ok |-> FALSE, key |-> key]

---------------------------------------------------------------------------
(* _setup (setup_sub_command.rs 107-183) *)

SetupTypes == {"FullSetup", "PartialSetup"}

\* The /universe setup command is invoked (setup_sub_command.rs 54-56).
Invoke ==
    /\ pc = "idle"
    /\ budget.runs > 0
    /\ \E t \in SetupTypes : loc' = [InitLoc EXCEPT !.setup_type = t]
    /\ budget' = [budget EXCEPT !.runs = @ - 1]
    /\ pc' = "load"
    /\ log' = <<>>
    /\ ret' = NoResult
    /\ pre' = [pre EXCEPT !.op = "_setup", !.roles = roles, !.channels = channels,
                          !.faults = budget.faults, !.phase = "none", !.phase_log = 0]
    /\ UNCHANGED <<config, snapshot, store, roles, channels, nextId>>

\* A lookup that takes a missing document for a default one.
Found_always(st) == TRUE

\* `let Some(mut server) = get_server_by_id(..).await? else { return Err(..) }`
\* (setup_sub_command.rs 110): whether the store holds the guild's document.
Found(st) == st.present

\* get_server_by_id(guild_id).await? ... else return Err("setup__server_not_found")
\* (setup_sub_command.rs 110)
SetupLoad ==
    /\ pc = "load"
    /\ \E ok \in BOOLEAN :
        /\ FaultCost(TRUE, ok) <= budget.faults
        /\ budget' = Spend(FaultCost(TRUE, ok))
        /\ log' = Append(log, Call("get_server_by_id", ServerId, ok, "load", "none"))
        /\ IF ~ok
           THEN /\ pc' = "idle" /\ ret' = Err("mongodb_error")
                /\ UNCHANGED <<config, pre>>
           ELSE IF ~Found(store)
           THEN /\ pc' = "idle" /\ ret' = Err("setup__server_not_found")
                /\ UNCHANGED <<config, pre>>
           ELSE /\ pc' = "snaphot" /\ ret' = ret
                /\ config' = store.server
                /\ pre' = [pre EXCEPT !.config = store.server]
    /\ UNCHANGED <<snapshot, store, roles, channels, nextId, loc>>

\* let server_snapshot = server.clone().snaphot(ctx).await
\* (setup_sub_command.rs 111); the two listings are unwrapped (server.rs 429-430).
SetupSnaphot ==
    /\ pc = "snaphot"
    /\ \E okRoles, okChannels \in BOOLEAN :
        /\ okChannels \/ okRoles
        /\ FaultCost(TRUE, okRoles /\ okChannels) <= budget.faults
        /\ budget' = Spend(FaultCost(TRUE, okRoles /\ okChannels))
        /\ log' = log \o
              (IF okRoles
               THEN << Call("get_guild_roles", ServerId, TRUE, "snaphot", "none"),
                       Call("get_channels", ServerId, okChannels, "snaphot", "none") >>
               ELSE << Call("get_guild_roles", ServerId, FALSE, "snaphot", "none") >>)
        /\ IF okRoles /\ okChannels
           THEN /\ snapshot' = Snaphot(Clone(config), roles, channels)
                /\ pc' = "gate_check" /\ ret' = ret
           ELSE /\ pc' = "idle" /\ ret' = Err("panic")
                /\ UNCHANGED snapshot
    /\ UNCHANGED <<config, store, roles, channels, nextId, loc, pre>>

\* The condition of the confirmation gate (setup_sub_command.rs 113-122).
GateFields ==
    { "admin_role_id", "moderator_role_id", "spectator_role_id", "player_role_id",
      "road_category_id", "rp_wiki_channel_id", "admin_category_id",
      "nrp_category_id", "rp_category_id", "rp_character_channel_id" }

AlreadySetUp(server) == \E f \in GateFields : IsSome(server[f])

\* setup_sub_command.rs 113-144: the prompt is sent when the condition holds
\* (ctx.send(..).await.unwrap()), else the dispatch follows at once.
SetupGateCheck ==
    /\ pc = "gate_check"
    /\ IF AlreadySetUp(config)
       THEN \E ok \in BOOLEAN :
            /\ FaultCost(TRUE, ok) <= budget.faults
            /\ budget' = Spend(FaultCost(TRUE, ok))
            /\ log' = Append(log, Call("send", 0, ok, "gate", "cancel/continue"))
            /\ IF ok
               THEN /\ pc' = "gate_wait" /\ ret' = ret
                    /\ loc' = [loc EXCEPT !.gate = "shown"]
               ELSE /\ pc' = "idle" /\ ret' = Err("panic")
                    /\ loc' = loc
       ELSE /\ pc' = "dispatch"
            /\ UNCHANGED <<budget, log, ret, loc>>
    /\ UNCHANGED <<config, snapshot, store, roles, channels, nextId, pre>>

\* A timeout that is reported as a cancellation.
TimeoutReturn_cancelled(okDelete) == Ok("setup_server__cancelled")

\* What the timeout branch returns (setup_sub_command.rs 154-156): the `?` on
\* message.delete propagates its error, else the timeout error is returned.
TimeoutReturn(okDelete) ==
    IF okDelete THEN Err("setup__server_already_setup_timeout") ELSE Err("serenity_error")

\* The collector times out after 60 seconds (setup_sub_command.rs 148-157):
\* message.delete(*ctx).await?; return Err(timeout).
GateTimeout ==
    /\ pc = "gate_wait"
    /\ \E ok \in BOOLEAN :
        /\ FaultCost(TRUE, ok) <= budget.faults
        /\ budget' = Spend(FaultCost(TRUE, ok))
        /\ log' = Append(log, Call("message_delete", 0, ok, "gate", "timeout"))
        /\ ret' = TimeoutReturn(ok)
    /\ pc' = "idle"
    /\ UNCHANGED <<config, snapshot, store, roles, channels, nextId, loc, pre>>

CustomIds == {"cancel", "continue", "other"}

\* Who may press a button of the prompt, and where the interaction occurs.
GateUsers == {"author", "other_user"}
GateChannels == {"origin", "other_channel"}

\* How many interactions the filter drops while one prompt is waiting.
MaxIgnored == 2

\* A collector filtered by channel only.
CollectorAccepts_anyUser(user, channel) == channel = "origin"

\* ComponentInteractionCollector::new(..).author_id(ctx.author().id)
\* .channel_id(ctx.channel_id()) (setup_sub_command.rs 148-150): the collector
\* yields an interaction only of the invoking user in the originating channel.
CollectorAccepts(user, channel) == user = "author" /\ channel = "origin"

\* An interaction the collector's filter drops (setup_sub_command.rs
\* 148-152): the await goes on, nothing else happens.
GateIgnored ==
    /\ pc = "gate_wait"
    /\ loc.ignored < MaxIgnored
    /\ \E user \in GateUsers, channel \in GateChannels : ~CollectorAccepts(user, channel)
    /\ loc' = [loc EXCEPT !.ignored = @ + 1]
    /\ UNCHANGED <<config, snapshot, store, roles, channels, nextId, pc, log, ret, pre, budget>>

\* A match that has no "cancel" arm.
IsCancel_never(custom_id) == FALSE

\* match mci.data.custom_id.as_str() { "cancel" => .., _ => {} }
\* (setup_sub_command.rs 161-167)
IsCancel(custom_id) == custom_id = "cancel"

\* The collector yields an interaction of the invoking user in the channel
\* (setup_sub_command.rs 158-169): defer, strip the buttons, then "cancel"
\* deletes the prompt and returns Ok(cancelled); any other custom id falls
\* through to the dispatch.
GateInteraction ==
    /\ pc = "gate_wait"
    /\ \E user \in GateUsers, channel \in GateChannels,
          custom_id \in CustomIds, okDefer, okEdit, okDelete \in BOOLEAN :
        LET didEdit == okDefer
            l == [loc EXCEPT !.by = [user |-> user, channel |-> channel]]
            didDelete == okDefer /\ okEdit /\ IsCancel(custom_id)
            cost == FaultCost(TRUE, okDefer) + FaultCost(didEdit, okEdit)
                    + FaultCost(didDelete, okDelete)
        IN  /\ CollectorAccepts(user, channel)
            /\ ~didEdit => okEdit
            /\ ~didDelete => okDelete
            /\ cost <= budget.faults
            /\ budget' = Spend(cost)
            /\ log' = log
                 \o << Call("defer", 0, okDefer, "gate", custom_id) >>
                 \o (IF didEdit THEN << Call("message_edit", 0, okEdit, "gate", custom_id) >> ELSE <<>>)
                 \o (IF didDelete THEN << Call("message_delete", 0, okDelete, "gate", custom_id) >> ELSE <<>>)
            /\ IF ~(okDefer /\ okEdit /\ okDelete)
               THEN /\ pc' = "idle" /\ ret' = Err("serenity_error") /\ loc' = l
               ELSE IF IsCancel(custom_id)
               THEN /\ pc' = "idle" /\ ret' = Ok("setup_server__cancelled") /\ loc' = l
               ELSE /\ pc' = "dispatch" /\ ret' = ret
                    /\ loc' = [l EXCEPT !.gate = "continued"]
    /\ UNCHANGED <<config, snapshot, store, roles, channels, nextId, pre>>

\* match setup_type { FullSetup => full_setup(..), PartialSetup => partial_setup(..) }
\* (setup_sub_command.rs 172-175); full_setup starts with partial_setup
\* (full_setup.rs 60).
SetupDispatch ==
    /\ pc = "dispatch"
    /\ loc' = [loc EXCEPT !.full = (loc.setup_type = "FullSetup")]
    /\ pc' = "ps_role"
    /\ pre' = [pre EXCEPT !.phase = "partial", !.phase_config = config,
                          !.phase_log = Len(log)]
    /\ UNCHANGED <<config, snapshot, store, roles, channels, nextId, log, ret, budget>>

\* An orchestrator that saves only after a successful phase.
SetupFinalUpdate_onSuccessOnly ==
    /\ pc = "final_update"
    /\ \E ok \in BOOLEAN :
        /\ loc.result.ok \/ ok
        /\ FaultCost(loc.result.ok, ok) <= budget.faults
        /\ budget' = Spend(FaultCost(loc.result.ok, ok))
        /\ log' = IF loc.result.ok THEN Append(log, Call("update", 0, ok, "_setup", "none")) ELSE log
        /\ store' = IF ok /\ loc.result.ok THEN [store EXCEPT !.server = config] ELSE store
        /\ ret' = IF ~ok THEN Err("mongodb_error")
                  ELSE IF loc.result.ok THEN Ok("setup_server__success")
                  ELSE Err("setup_server__failed")
    /\ pc' = "idle"
    /\ pre' = [pre EXCEPT !.prev = [ok |-> loc.result.ok, setup_type |-> loc.setup_type,
                                     config |-> config, stored |-> store'.server = config,
                                     roles |-> roles, channels |-> channels]]
    /\ UNCHANGED <<config, snapshot, roles, channels, nextId, loc>>

\* server.update().await?; then the result is mapped (setup_sub_command.rs 177-182).
SetupFinalUpdate ==
    /\ pc = "final_update"
    /\ \E ok \in BOOLEAN :
        /\ FaultCost(TRUE, ok) <= budget.faults
        /\ budget' = Spend(FaultCost(TRUE, ok))
        /\ log' = Append(log, Call("update", 0, ok, "_setup", "none"))
        /\ store' = IF ok THEN [store EXCEPT !.server = config] ELSE store
        /\ ret' = IF ~ok THEN Err("mongodb_error")
                  ELSE IF loc.result.ok THEN Ok("setup_server__success")
                  ELSE Err("setup_server__failed")
    /\ pc' = "idle"
    /\ pre' = [pre EXCEPT !.prev = [ok |-> loc.result.ok, setup_type |-> loc.setup_type,
                                     config |-> config, stored |-> store'.server = config,
                                     roles |-> roles, channels |-> channels]]
    /\ UNCHANGED <<config, snapshot, roles, channels, nextId, loc>>

---------------------------------------------------------------------------
(* The resolution pattern of the setup phases *)

\* A resolution that takes every stored ref for stale.
Reuse_never(hasRef, fetchOk) == FALSE

\* `Some(id) => match fetch(id) { Ok(r) => Ok(r), .. }`: the stored resource
\* is used when there is a stored ref and its live fetch succeeds
\* (partial_setup.rs 93-95, complementary_setup.rs 110-112); every other
\* case creates.
Reuse(hasRef, fetchOk) == hasRef /\ fetchOk

---------------------------------------------------------------------------
(* partial_setup (partial_setup.rs 72-307) *)

\* create_role's permission argument per tier (partial_setup.rs 87, 96, 107,
\* 116, 127, 136, 147, 156): the same set on both creation paths.
RolePermissions(f) ==
    CASE f = "admin_role_id" -> "AdminRolePermissions"
      [] f = "moderator_role_id" -> "ModeratorRolePermissions"
      [] f = "spectator_role_id" -> "SpectatorRolePermissions"
      [] f = "player_role_id" -> "PlayerRolePermissions"

\* create_role's permission argument in handler.rs (lines 165, 174, 185, 194,
\* 205, 214, 225, 234): the creation without a stored id passes the admin
\* set for the admin tier and the moderator set for the three others; the
\* creation after a failed fetch passes the admin set for every tier.
HandlerRolePermissions(f, stale) ==
    IF stale \/ f = "admin_role_id" THEN "AdminRolePermissions"
    ELSE "ModeratorRolePermissions"

\* The error key pushed when a tier's creation fails (partial_setup.rs 89, 109, 129, 149).
RoleError(f) ==
    CASE f = "admin_role_id" -> "setup__admin_role_not_created"
      [] f = "moderator_role_id" -> "setup__moderator_role_not_created"
      [] f = "spectator_role_id" -> "setup__spectator_role_not_created"
      [] f = "player_role_id" -> "setup__player_role_not_created"

\* An entry of a delete loop.
Del(op, id) == [op |-> op, id |-> id]

DelRoles(ids) == [k \in 1..Len(ids) |-> Del("delete_role", ids[k])]
DelChannels(ids) == [k \in 1..Len(ids) |-> Del("delete_channel", ids[k])]

\* One of the four role resolutions (partial_setup.rs 85-163, and in the
\* earlier revision handler.rs 163-240): a stored id is
\* fetched live; without a stored id, or when the fetch fails, the role is
\* created and pushed to roles_created; a failed creation pushes the tier's
\* error.  The next tier is resolved whatever the outcome.
PsResolveRole ==
    /\ pc = "ps_role"
    /\ LET f == RoleFields[loc.i]
           stored == config[f]
           hasRef == IsSome(stored)
           canFetch == hasRef /\ stored.id \in roles
       IN \E fetchOk, createOk \in BOOLEAN :
          LET didCreate == ~Reuse(hasRef, fetchOk)
              cost == FaultCost(canFetch, fetchOk) + FaultCost(didCreate, createOk)
              fetchCall == IF hasRef
                           THEN << Call("get_guild_role", stored.id, fetchOk, f, "none") >>
                           ELSE <<>>
              createCall == IF didCreate
                            THEN << Call("create_role", IF createOk THEN nextId ELSE 0,
                                         createOk, f,
                                         IF loc.rev = "handler"
                                         THEN HandlerRolePermissions(f, hasRef)
                                         ELSE RolePermissions(f)) >>
                            ELSE <<>>
          IN  /\ fetchOk => canFetch
              /\ ~didCreate => createOk
              /\ cost <= budget.faults
              /\ budget' = Spend(cost)
              /\ log' = log \o fetchCall \o createCall
              /\ roles' = IF didCreate /\ createOk THEN roles \cup {nextId} ELSE roles
              /\ nextId' = IF didCreate /\ createOk THEN nextId + 1 ELSE nextId
              /\ loc' = [loc EXCEPT
                    !.res[f] = IF ~didCreate THEN stored.id
                               ELSE IF createOk THEN nextId ELSE 0,
                    !.roles_created = IF didCreate /\ createOk THEN Append(@, nextId) ELSE @,
                    !.errors = IF didCreate /\ ~createOk THEN Append(@, RoleError(f)) ELSE @,
                    !.i = IF loc.i < Len(RoleFields) THEN loc.i + 1 ELSE 1]
              /\ pc' = IF loc.i < Len(RoleFields) THEN "ps_role" ELSE "ps_roles_check"
    /\ UNCHANGED <<config, snapshot, store, channels, ret, pre>>

\* A check of the role errors that returns them without deleting anything.
PsRolesCheck_noRollback ==
    /\ pc = "ps_roles_check"
    /\ IF loc.errors # <<>>
       THEN /\ loc' = [loc EXCEPT !.result = [ok |-> FALSE, key |-> loc.errors]]
            /\ pc' = "ps_return"
       ELSE /\ loc' = loc
            /\ pc' = "ps_reorder"
    /\ UNCHANGED <<config, snapshot, store, roles, channels, nextId, log, ret, pre, budget>>

\* A partial_setup that goes on to the reorder whatever the role stage
\* collected.
PsRolesCheck_goesOn ==
    /\ pc = "ps_roles_check"
    /\ loc' = loc
    /\ pc' = "ps_reorder"
    /\ UNCHANGED <<config, snapshot, store, roles, channels, nextId, log, ret, pre, budget>>

\* partial_setup.rs 165-180: with any error, the created roles are deleted in
\* creation order, and the first failed delete returns setup__rollback_failed.
PsRolesCheck ==
    /\ pc = "ps_roles_check"
    /\ IF loc.errors # <<>>
       THEN /\ loc' = [loc EXCEPT !.todo = DelRoles(loc.roles_created),
                                  !.after = loc.errors, !.abort = TRUE]
            /\ pc' = "ps_delete"
       ELSE /\ loc' = loc
            /\ pc' = "ps_reorder"
    /\ UNCHANGED <<config, snapshot, store, roles, channels, nextId, log, ret, pre, budget>>

\* A delete loop that never returns from inside.
Aborts_never(abort, ok) == FALSE

\* The Err arm of a delete loop's match (partial_setup.rs 170-177,
\* complementary_setup.rs 335-338, 402-408): a loop whose arm holds a `return`
\* ends at the first failed delete; the arms of partial_setup.rs 209-214,
\* 252-257, 283-288 and 294-299 only log.
Aborts(abort, ok) == abort /\ ~ok

\* One iteration of a delete loop of partial_setup (partial_setup.rs 167-178,
\* 206-216, 249-259, 280-301), or its end: the return of the pending error.
PsDelete ==
    /\ pc = "ps_delete"
    /\ IF loc.todo = <<>>
       THEN /\ loc' = [loc EXCEPT !.result = [ok |-> FALSE, key |-> loc.after]]
            /\ pc' = "ps_return"
            /\ UNCHANGED <<roles, channels, log, budget>>
       ELSE LET d == Head(loc.todo)
                can == IF d.op = "delete_role" THEN d.id \in roles ELSE d.id \in channels
            IN \E ok \in BOOLEAN :
                /\ ok => can
                /\ FaultCost(can, ok) <= budget.faults
                /\ budget' = Spend(FaultCost(can, ok))
                /\ log' = Append(log, Call(d.op, d.id, ok, "partial_setup", "loop"))
                /\ roles' = IF ok /\ d.op = "delete_role" THEN roles \ {d.id} ELSE roles
                /\ channels' = IF ok /\ d.op = "delete_channel" THEN channels \ {d.id} ELSE channels
                /\ IF Aborts(loc.abort, ok)
                   THEN /\ loc' = [loc EXCEPT !.todo = <<>>,
                                   !.result = [ok |-> FALSE, key |-> <<"setup__rollback_failed">>]]
                        /\ pc' = "ps_return"
                   ELSE /\ loc' = [loc EXCEPT !.todo = Tail(@)]
                        /\ pc' = "ps_delete"
    /\ UNCHANGED <<config, snapshot, store, nextId, ret, pre>>

\* A position list that leaves the bot's role out.
RolesPos_noBot(l) ==
    << [id |-> l.res["admin_role_id"], position |-> 4],
       [id |-> l.res["moderator_role_id"], position |-> 3],
       [id |-> l.res["spectator_role_id"], position |-> 2],
       [id |-> l.res["player_role_id"], position |-> 1] >>

\* roles_pos (partial_setup.rs 197)
RolesPos(l) ==
    << [id |-> l.res["admin_role_id"], position |-> 4],
       [id |-> l.res["moderator_role_id"], position |-> 3],
       [id |-> l.res["spectator_role_id"], position |-> 2],
       [id |-> l.res["player_role_id"], position |-> 1],
       [id |-> BotRole, position |-> 5] >>

\* A partial_setup whose failed reorder returns the error and deletes nothing.
PsReorder_noSweep ==
    /\ pc = "ps_reorder"
    /\ \E okMember, okReorder \in BOOLEAN :
        LET cost == FaultCost(TRUE, okMember) + FaultCost(okMember, okReorder)
        IN  /\ ~okMember => okReorder
            /\ cost <= budget.faults
            /\ budget' = Spend(cost)
            /\ log' = log \o << Call("member", BotRole, okMember, "partial_setup", "none") >>
                 \o (IF okMember
                     THEN << [Call("reorder_roles", 0, okReorder, "partial_setup", "none")
                                EXCEPT !.positions = RolesPos(loc)] >>
                     ELSE <<>>)
            /\ IF ~okMember
               THEN /\ pc' = "idle" /\ ret' = Err("panic") /\ loc' = loc
               ELSE IF okReorder
               THEN /\ pc' = "ps_road" /\ ret' = ret /\ loc' = loc
               ELSE /\ pc' = "ps_return" /\ ret' = ret
                    /\ loc' = [loc EXCEPT !.result =
                                  [ok |-> FALSE, key |-> <<"setup__reorder_went_wrong">>]]
    /\ UNCHANGED <<config, snapshot, store, roles, channels, nextId, pre>>

\* partial_setup.rs 189-218: the bot's member is fetched (unwrapped), the one
\* reorder call is made; its failure deletes the created roles, best effort,
\* and returns setup__reorder_went_wrong.
PsReorder ==
    /\ pc = "ps_reorder"
    /\ \E okMember, okReorder \in BOOLEAN :
        LET cost == FaultCost(TRUE, okMember) + FaultCost(okMember, okReorder)
        IN  /\ ~okMember => okReorder
            /\ cost <= budget.faults
            /\ budget' = Spend(cost)
            /\ log' = log \o << Call("member", BotRole, okMember, "partial_setup", "none") >>
                 \o (IF okMember
                     THEN << [Call("reorder_roles", 0, okReorder, "partial_setup", "none")
                                EXCEPT !.positions = RolesPos(loc)] >>
                     ELSE <<>>)
            /\ IF ~okMember
               THEN /\ pc' = "idle" /\ ret' = Err("panic") /\ loc' = loc
               ELSE IF okReorder
               THEN /\ pc' = "ps_road" /\ ret' = ret /\ loc' = loc
               ELSE /\ pc' = "ps_delete" /\ ret' = ret
                    /\ loc' = [loc EXCEPT !.todo = DelRoles(loc.roles_created),
                                          !.after = <<"setup__reorder_went_wrong">>,
                                          !.abort = FALSE]
    /\ UNCHANGED <<config, snapshot, store, roles, channels, nextId, pre>>

\* A partial_setup that stores a resolved role only in a field that held no ref.
PartialWrites_keepStored(server, l) ==
    [f \in ServerFields |->
        IF f \in RoleFieldSet /\ ~IsSome(server[f]) THEN Id(l.res[f], "Role")
        ELSE IF f = "everyone_role_id" THEN Id(EveryoneRole, "Role")
        ELSE IF f = "road_category_id" THEN Id(l.res[f], "Category")
        ELSE server[f]]

\* The fields partial_setup writes (partial_setup.rs 265-270).
PartialWrites(server, l) ==
    [f \in ServerFields |->
        IF f \in RoleFieldSet THEN Id(l.res[f], "Role")
        ELSE IF f = "everyone_role_id" THEN Id(EveryoneRole, "Role")
        ELSE IF f = "road_category_id" THEN Id(l.res[f], "Category")
        ELSE server[f]]

\* partial_setup.rs 220-270: the roads category is fetched or created; a
\* failed creation deletes the created roles, best effort, and returns
\* setup__road_category_not_created; otherwise the six fields are written.
PsRoad ==
    /\ pc = "ps_road"
    /\ LET f == "road_category_id"
           stored == config[f]
           hasRef == IsSome(stored)
           canFetch == hasRef /\ stored.id \in channels
       IN \E fetchOk, createOk \in BOOLEAN :
          LET didCreate == ~Reuse(hasRef, fetchOk)
              cost == FaultCost(canFetch, fetchOk) + FaultCost(didCreate, createOk)
              road == IF ~didCreate THEN stored.id ELSE IF createOk THEN nextId ELSE 0
              l == [loc EXCEPT !.res[f] = road, !.road_created = didCreate /\ createOk]
          IN  /\ fetchOk => canFetch
              /\ ~didCreate => createOk
              /\ cost <= budget.faults
              /\ budget' = Spend(cost)
              /\ log' = log
                   \o (IF hasRef THEN << Call("get_channel", stored.id, fetchOk, f, "none") >> ELSE <<>>)
                   \o (IF didCreate
                       THEN << Call("create_channel", road, createOk, f, "Category") >>
                       ELSE <<>>)
              /\ channels' = IF didCreate /\ createOk THEN channels \cup {nextId} ELSE channels
              /\ nextId' = IF didCreate /\ createOk THEN nextId + 1 ELSE nextId
              /\ IF didCreate /\ ~createOk
                 THEN /\ loc' = [l EXCEPT !.todo = DelRoles(loc.roles_created),
                                          !.after = <<"setup__road_category_not_created">>,
                                          !.abort = FALSE]
                      /\ pc' = "ps_delete"
                      /\ config' = config
                 ELSE /\ loc' = l
                      /\ pc' = "ps_update"
                      /\ config' = PartialWrites(config, l)
    /\ UNCHANGED <<snapshot, store, roles, ret, pre>>

\* A sweep that forgets the roads category.
UpdateFailedSweep_rolesOnly(l) == DelRoles(l.roles_created)

\* What the failed update of partial_setup deletes (partial_setup.rs 280-301):
\* roles_created, then the roads category if road_created.
UpdateFailedSweep(l) ==
    DelRoles(l.roles_created)
        \o (IF l.road_created THEN DelChannels(<<l.res["road_category_id"]>>) ELSE <<>>)

\* partial_setup.rs 272-306: server.update(); its failure deletes the created
\* roles and, if road_created, the roads category, best effort, and returns
\* setup__server_update_failed.
PsUpdate ==
    /\ pc = "ps_update"
    /\ \E ok \in BOOLEAN :
        /\ FaultCost(TRUE, ok) <= budget.faults
        /\ budget' = Spend(FaultCost(TRUE, ok))
        /\ log' = Append(log, Call("update", 0, ok, "partial_setup", "none"))
        /\ IF ok
           THEN /\ store' = [store EXCEPT !.server = config]
                /\ loc' = [loc EXCEPT !.result = [ok |-> TRUE, key |-> <<"setup__setup_success_message">>]]
                /\ pc' = "ps_return"
           ELSE /\ store' = store
                /\ loc' = [loc EXCEPT
                      !.todo = UpdateFailedSweep(loc),
                      !.after = <<"setup__server_update_failed">>,
                      !.abort = FALSE]
                /\ pc' = "ps_delete"
    /\ UNCHANGED <<config, snapshot, roles, channels, nextId, ret, pre>>

\* The value partial_setup hands back: Ok((key, roles_created, vec![road_category]))
\* (partial_setup.rs 306) or Err(keys).
PartialResult(l) ==
    [ok |-> l.result.ok, key |-> l.result.key,
     roles |-> IF l.result.ok THEN l.roles_created ELSE <<>>,
     channels |-> IF l.result.ok THEN <<l.res["road_category_id"]>> ELSE <<>>]

\* partial_setup returns to its caller: _setup (setup_sub_command.rs 174),
\* full_setup, which returns its error at once (full_setup.rs 60-64), or, in
\* handler.rs, setup (line 48) or the join of full_setup (line 377).
PsReturn ==
    /\ pc = "ps_return"
    /\ pc' = IF loc.rev = "handler" THEN (IF loc.full THEN "h_join" ELSE "h_reply")
             ELSE IF loc.full /\ loc.result.ok THEN "cs_category"
             ELSE IF loc.full THEN "fs_return" ELSE "final_update"
    /\ loc' = [loc EXCEPT !.partial_setup_result = PartialResult(loc), !.i = 1,
                          !.errors = <<>>, !.todo = <<>>]
    /\ pre' = IF loc.rev = "current" /\ loc.full /\ loc.result.ok
              THEN [pre EXCEPT !.phase = "complementary", !.phase_config = config,
                               !.phase_log = Len(log)]
              ELSE pre
    /\ UNCHANGED <<config, snapshot, store, roles, channels, nextId, log, ret, budget>>

---------------------------------------------------------------------------
(* complementary_setup (complementary_setup.rs 85-415) *)

\* The categories and channels in the order the code resolves them
\* (complementary_setup.rs 103, 126, 148 and 192, 213, 234, 255, 278, 300).
CategoryFields == <<"admin_category_id", "nrp_category_id", "rp_category_id">>

ChannelFields ==
    << "log_channel_id", "commands_channel_id", "moderation_channel_id",
       "nrp_general_channel_id", "rp_character_channel_id", "rp_wiki_channel_id" >>

\* The error key of a failed creation (complementary_setup.rs 106-312).
ChannelError(f) ==
    CASE f = "admin_category_id" -> "setup__admin_category_not_created"
      [] f = "nrp_category_id" -> "setup__nrp_category_not_created"
      [] f = "rp_category_id" -> "setup__rp_category_not_created"
      [] f = "log_channel_id" -> "setup__log_channel_not_created"
      [] f = "commands_channel_id" -> "setup__commands_channel_not_created"
      [] f = "moderation_channel_id" -> "setup__moderation_channel_not_created"
      [] f = "nrp_general_channel_id" -> "setup__nrp_general_channel_not_created"
      [] f = "rp_character_channel_id" -> "setup__rp_character_channel_not_created"
      [] f = "rp_wiki_channel_id" -> "setup__wiki_channel_not_created"

\* create_channel's ChannelType argument.
ChannelType(f) ==
    IF f \in Range(CategoryFields) THEN "Category"
    ELSE IF f = "rp_wiki_channel_id" THEN "Forum" ELSE "Text"

\* The category a channel is nested under (the last argument of create_channel).
ParentField(f) ==
    CASE f \in {"log_channel_id", "commands_channel_id", "moderation_channel_id"} -> "admin_category_id"
      [] f = "nrp_general_channel_id" -> "nrp_category_id"
      [] f \in {"rp_character_channel_id", "rp_wiki_channel_id"} -> "rp_category_id"

\* One of the three category resolutions (complementary_setup.rs 103-170).  A
\* fetched category is not tracked; a category created in place of a stale
\* ref is written to the config at once (lines 116, 139, 162).
CsResolveCategory ==
    /\ pc = "cs_category"
    /\ LET f == CategoryFields[loc.i]
           stored == config[f]
           hasRef == IsSome(stored)
           canFetch == hasRef /\ stored.id \in channels
       IN \E fetchOk, createOk \in BOOLEAN :
          LET didCreate == ~Reuse(hasRef, fetchOk)
              cost == FaultCost(canFetch, fetchOk) + FaultCost(didCreate, createOk)
          IN  /\ fetchOk => canFetch
              /\ ~didCreate => createOk
              /\ cost <= budget.faults
              /\ budget' = Spend(cost)
              /\ log' = log
                   \o (IF hasRef THEN << Call("get_channel", stored.id, fetchOk, f, "none") >> ELSE <<>>)
                   \o (IF didCreate
                       THEN << Call("create_channel", IF createOk THEN nextId ELSE 0,
                                    createOk, f, ChannelType(f)) >>
                       ELSE <<>>)
              /\ channels' = IF didCreate /\ createOk THEN channels \cup {nextId} ELSE channels
              /\ nextId' = IF didCreate /\ createOk THEN nextId + 1 ELSE nextId
              /\ config' = IF hasRef /\ didCreate /\ createOk
                           THEN [config EXCEPT ![f] = Id(nextId, "Category")]
                           ELSE config
              /\ loc' = [loc EXCEPT
                    !.res[f] = IF ~didCreate THEN stored.id
                               ELSE IF createOk THEN nextId ELSE 0,
                    !.created_categories = IF didCreate /\ createOk THEN Append(@, nextId) ELSE @,
                    !.errors = IF didCreate /\ ~createOk THEN Append(@, ChannelError(f)) ELSE @,
                    !.i = IF loc.i < Len(CategoryFields) THEN loc.i + 1 ELSE 1]
              /\ pc' = IF loc.i < Len(CategoryFields) THEN "cs_category" ELSE "cs_categories_check"
    /\ UNCHANGED <<snapshot, store, roles, ret, pre>>

\* A complementary_setup that resolves its channels whatever the outcome of
\* the categories.
CsCategoriesCheck_goesOn ==
    /\ pc = "cs_categories_check"
    /\ loc' = [loc EXCEPT !.errors = <<>>]
    /\ pc' = "cs_channel"
    /\ UNCHANGED <<config, snapshot, store, roles, channels, nextId, log, ret, pre, budget>>

\* complementary_setup.rs 175-178: with any category error the function
\* returns setup__roles_setup_failed; nothing is deleted here.
CsCategoriesCheck ==
    /\ pc = "cs_categories_check"
    /\ IF loc.errors # <<>>
       THEN /\ loc' = [loc EXCEPT !.result = [ok |-> FALSE, key |-> <<"setup__roles_setup_failed">>]]
            /\ pc' = "cs_return"
       ELSE /\ loc' = [loc EXCEPT !.errors = <<>>]
            /\ pc' = "cs_channel"
    /\ UNCHANGED <<config, snapshot, store, roles, channels, nextId, log, ret, pre, budget>>

\* One of the six channel resolutions (complementary_setup.rs 192-321).  A
\* channel is pushed to created_channels when it is created and also when a
\* stored ref is fetched successfully (lines 202, 223, 244, 265, 288, 310).
CsResolveChannel ==
    /\ pc = "cs_channel"
    /\ LET f == ChannelFields[loc.i]
           stored == config[f]
           hasRef == IsSome(stored)
           canFetch == hasRef /\ stored.id \in channels
       IN \E fetchOk, createOk \in BOOLEAN :
          LET didCreate == ~Reuse(hasRef, fetchOk)
              cost == FaultCost(canFetch, fetchOk) + FaultCost(didCreate, createOk)
              got == IF ~didCreate THEN stored.id ELSE IF createOk THEN nextId ELSE 0
          IN  /\ fetchOk => canFetch
              /\ ~didCreate => createOk
              /\ cost <= budget.faults
              /\ budget' = Spend(cost)
              /\ log' = log
                   \o (IF hasRef THEN << Call("get_channel", stored.id, fetchOk, f, "none") >> ELSE <<>>)
                   \o (IF didCreate
                       THEN << [Call("create_channel", got, createOk, f, ChannelType(f))
                                  EXCEPT !.parent = loc.res[ParentField(f)]] >>
                       ELSE <<>>)
              /\ channels' = IF didCreate /\ createOk THEN channels \cup {nextId} ELSE channels
              /\ nextId' = IF didCreate /\ createOk THEN nextId + 1 ELSE nextId
              /\ loc' = [loc EXCEPT
                    !.res[f] = got,
                    !.created_channels = IF got # 0 THEN Append(@, got) ELSE @,
                    !.errors = IF got = 0 THEN Append(@, ChannelError(f)) ELSE @,
                    !.i = IF loc.i < Len(ChannelFields) THEN loc.i + 1 ELSE 1]
              /\ pc' = IF loc.i < Len(ChannelFields) THEN "cs_channel" ELSE "cs_channels_check"
    /\ UNCHANGED <<config, snapshot, store, roles, ret, pre>>

\* A complementary_setup that stores none of what it resolved.
ComplementaryWrites_none(server, l) == server

\* The nine fields complementary_setup writes (complementary_setup.rs 353-361).
ComplementaryWrites(server, l) ==
    [f \in ServerFields |->
        IF f \in Range(CategoryFields) THEN Id(l.res[f], "Category")
        ELSE IF f \in Range(ChannelFields) THEN Id(l.res[f], "Channel")
        ELSE server[f]]

\* complementary_setup.rs 330-361: the categories are appended to
\* created_channels; with any channel error the delete loop starts, else the
\* nine fields are written.
CsChannelsCheck ==
    /\ pc = "cs_channels_check"
    /\ LET all == loc.created_channels \o loc.created_categories
       IN IF loc.errors # <<>>
          THEN /\ loc' = [loc EXCEPT !.created_channels = all, !.created_categories = <<>>,
                                     !.todo = DelChannels(all),
                                     !.after = <<"setup__channel_setup_failed">>,
                                     !.abort = TRUE]
               /\ pc' = "cs_delete"
               /\ config' = config
          ELSE /\ loc' = [loc EXCEPT !.created_channels = all, !.created_categories = <<>>]
               /\ pc' = "cs_reorder"
               /\ config' = ComplementaryWrites(config, loc)
    /\ UNCHANGED <<snapshot, store, roles, channels, nextId, log, ret, pre, budget>>

\* One iteration of a delete loop of complementary_setup (lines 332-341,
\* 399-410), or its end.  The first failed delete ends the loop with
\* setup__rollback_failed; in the loop of lines 332-341 Server::rollback runs
\* before that return.
CsDelete ==
    /\ pc = "cs_delete"
    /\ IF loc.todo = <<>>
       THEN /\ loc' = [loc EXCEPT !.result = [ok |-> FALSE, key |-> loc.after]]
            /\ pc' = "cs_return"
            /\ UNCHANGED <<channels, log, budget>>
       ELSE LET d == Head(loc.todo)
                can == d.id \in channels
            IN \E ok \in BOOLEAN :
                /\ ok => can
                /\ FaultCost(can, ok) <= budget.faults
                /\ budget' = Spend(FaultCost(can, ok))
                /\ log' = Append(log, Call(d.op, d.id, ok, "complementary_setup", "loop"))
                /\ channels' = IF ok THEN channels \ {d.id} ELSE channels
                /\ IF ~Aborts(loc.abort, ok)
                   THEN /\ loc' = [loc EXCEPT !.todo = Tail(@)]
                        /\ pc' = "cs_delete"
                   ELSE /\ loc' = [loc EXCEPT !.todo = <<>>,
                                   !.result = [ok |-> FALSE, key |-> <<"setup__rollback_failed">>]]
                        /\ pc' = IF loc.after = <<"setup__channel_setup_failed">>
                                 THEN "cs_rollback" ELSE "cs_return"
    /\ UNCHANGED <<config, snapshot, store, roles, nextId, ret, pre>>

\* Whether the platform holds what a delete on an Option<Id> targets.
OnPlatform(o, roleSet, channelSet) ==
    IF DeleteOp(o) = "delete_role" THEN o.id \in roleSet ELSE o.id \in channelSet

\* server.rollback(ctx, snapshot).await (complementary_setup.rs 336): the
\* whole of Server::rollback; a delete of an id the platform does not hold fails.
CsRollback ==
    /\ pc = "cs_rollback"
    /\ LET futs == Range(DeleteFutures(config, snapshot))
           some == {f \in futs : IsSome(config[f])}
           gone == {f \in some : ~OnPlatform(config[f], roles, channels)}
       IN \E fails \in SUBSET some :
          LET calls == RollbackCalls(config, snapshot, fails)
          IN  /\ gone \subseteq fails
              /\ Cardinality(fails \ gone) <= budget.faults
              /\ budget' = Spend(Cardinality(fails \ gone))
              /\ log' = log \o calls
              /\ config' = RollbackServer(config, snapshot, fails)
              /\ roles' = roles \ Deleted(calls, "delete_role")
              /\ channels' = channels \ Deleted(calls, "delete_channel")
    /\ pc' = "cs_return"
    /\ UNCHANGED <<snapshot, store, nextId, loc, ret, pre>>

RECURSIVE SortedSeq(_)
\* The ids of a set in increasing order.
SortedSeq(S) ==
    IF S = {} THEN <<>>
    ELSE LET m == CHOOSE x \in S : \A y \in S : x <= y
         IN  <<m>> \o SortedSeq(S \ {m})

\* channel_order (complementary_setup.rs 368-382): the four categories at
\* positions 0 to 3, every other channel of the guild at position 4.  The
\* guild's channels come from a map; the model lists them by id.
ChannelOrder(server, l, channelList) ==
    LET allowed == << l.res["admin_category_id"], l.res["nrp_category_id"],
                      l.res["rp_category_id"], server["road_category_id"].id >>
        others == SortedSeq(channelList \ Range(allowed))
    IN  [k \in 1..4 |-> [id |-> allowed[k], position |-> k - 1]]
        \o [k \in 1..Len(others) |-> [id |-> others[k], position |-> 4]]

\* A complementary_setup for which a failed reorder is fatal: it deletes the
\* tracked channels and returns an error.
CsReorder_fatal ==
    /\ pc = "cs_reorder"
    /\ \E okList, okReorder \in BOOLEAN :
        LET cost == FaultCost(TRUE, okList) + FaultCost(okList, okReorder)
        IN  /\ ~okList => okReorder
            /\ cost <= budget.faults
            /\ budget' = Spend(cost)
            /\ log' = log \o << Call("channels", ServerId, okList, "complementary_setup", "none") >>
                 \o (IF okList
                     THEN << [Call("reorder_channels", 0, okReorder, "complementary_setup", "none")
                                EXCEPT !.positions = ChannelOrder(config, loc, channels)] >>
                     ELSE <<>>)
            /\ IF ~okList
               THEN /\ pc' = "idle" /\ ret' = Err("panic") /\ loc' = loc
               ELSE IF okReorder
               THEN /\ pc' = "cs_update" /\ ret' = ret /\ loc' = loc
               ELSE /\ pc' = "cs_delete" /\ ret' = ret
                    /\ loc' = [loc EXCEPT !.todo = DelChannels(loc.created_channels),
                                          !.after = <<"setup__reorder_went_wrong">>,
                                          !.abort = TRUE]
    /\ UNCHANGED <<config, snapshot, store, roles, channels, nextId, pre>>

\* complementary_setup.rs 368-390: the guild's channels are listed
\* (unwrapped) and the one reorder call is made; its result is ignored.
CsReorder ==
    /\ pc = "cs_reorder"
    /\ \E okList, okReorder \in BOOLEAN :
        LET cost == FaultCost(TRUE, okList) + FaultCost(okList, okReorder)
        IN  /\ ~okList => okReorder
            /\ cost <= budget.faults
            /\ budget' = Spend(cost)
            /\ log' = log \o << Call("channels", ServerId, okList, "complementary_setup", "none") >>
                 \o (IF okList
                     THEN << [Call("reorder_channels", 0, okReorder, "complementary_setup", "none")
                                EXCEPT !.positions = ChannelOrder(config, loc, channels)] >>
                     ELSE <<>>)
            /\ IF okList
               THEN /\ pc' = "cs_update" /\ ret' = ret
               ELSE /\ pc' = "idle" /\ ret' = Err("panic")
    /\ UNCHANGED <<config, snapshot, store, roles, channels, nextId, loc, pre>>

\* complementary_setup.rs 396-414: server.update(); its failure starts the
\* delete loop over created_channels, which holds the categories too.
CsUpdate ==
    /\ pc = "cs_update"
    /\ \E ok \in BOOLEAN :
        /\ FaultCost(TRUE, ok) <= budget.faults
        /\ budget' = Spend(FaultCost(TRUE, ok))
        /\ log' = Append(log, Call("update", 0, ok, "complementary_setup", "none"))
        /\ IF ok
           THEN /\ store' = [store EXCEPT !.server = config]
                /\ loc' = [loc EXCEPT !.result = [ok |-> TRUE, key |-> <<"setup__setup_success_message">>]]
                /\ pc' = "cs_return"
           ELSE /\ store' = store
                /\ loc' = [loc EXCEPT !.todo = DelChannels(loc.created_channels),
                                      !.after = <<"setup__server_update_failed">>,
                                      !.abort = TRUE]
                /\ pc' = "cs_delete"
    /\ UNCHANGED <<config, snapshot, roles, channels, nextId, ret, pre>>

---------------------------------------------------------------------------
(* full_setup (full_setup.rs 59-106) *)

\* complementary_setup returns to full_setup (full_setup.rs 66-68).
CsReturn ==
    /\ pc = "cs_return"
    /\ pc' = IF loc.result.ok THEN "fs_return" ELSE "fs_rollback"
    /\ UNCHANGED <<config, snapshot, store, roles, channels, nextId, loc, log, ret, pre, budget>>

\* A full_setup that returns complementary_setup's error and deletes nothing.
FsRollback_none ==
    /\ pc = "fs_rollback"
    /\ pc' = "fs_return"
    /\ UNCHANGED <<config, snapshot, store, roles, channels, nextId, loc, log, ret, pre, budget>>

\* full_setup.rs 68-94: after a failed complementary_setup every role and
\* channel partial_setup returned is deleted, all deletes joined and their
\* results dropped; complementary_setup's error is returned.
FsRollback ==
    /\ pc = "fs_rollback"
    /\ LET targets == DelRoles(loc.partial_setup_result.roles)
                      \o DelChannels(loc.partial_setup_result.channels)
           idx == 1..Len(targets)
           gone == {k \in idx : IF targets[k].op = "delete_role"
                                THEN targets[k].id \notin roles
                                ELSE targets[k].id \notin channels}
       IN \E fails \in SUBSET idx :
          LET calls == [k \in idx |->
                          Call(targets[k].op, targets[k].id, k \notin fails, "full_setup", "join_all")]
          IN  /\ gone \subseteq fails
              /\ Cardinality(fails \ gone) <= budget.faults
              /\ budget' = Spend(Cardinality(fails \ gone))
              /\ log' = log \o calls
              /\ roles' = roles \ Deleted(calls, "delete_role")
              /\ channels' = channels \ Deleted(calls, "delete_channel")
    /\ pc' = "fs_return"
    /\ UNCHANGED <<config, snapshot, store, nextId, loc, ret, pre>>

\* full_setup returns to _setup (setup_sub_command.rs 173).
FsReturn ==
    /\ pc = "fs_return"
    /\ pc' = "final_update"
    /\ UNCHANGED <<config, snapshot, store, roles, channels, nextId, loc, log, ret, pre, budget>>

---------------------------------------------------------------------------
(* The guild's users *)

\* Between two invocations a user deletes by hand a role, category or
\* channel the stored config refers to.
ExtDelete ==
    /\ pc = "idle"
    /\ budget.ext > 0
    /\ budget.runs > 0
    /\ \E f \in RollbackFieldSet :
        LET o == store.server[f]
        IN  /\ IsSome(o)
            /\ OnPlatform(o, roles, channels)
            /\ roles' = IF DeleteOp(o) = "delete_role" THEN roles \ {o.id} ELSE roles
            /\ channels' = IF DeleteOp(o) = "delete_channel" THEN channels \ {o.id} ELSE channels
    /\ budget' = [budget EXCEPT !.ext = @ - 1]
    /\ UNCHANGED <<config, snapshot, store, nextId, pc, loc, log, ret, pre>>

---------------------------------------------------------------------------
(* The setup command on one guild *)

InitPre ==
    [ op |-> "none", config |-> DefaultServer, roles |-> {}, channels |-> {}, faults |-> 0,
      phase |-> "none", phase_config |-> DefaultServer, phase_log |-> 0,
      prev |-> [ok |-> FALSE, setup_type |-> "none", config |-> DefaultServer, stored |-> FALSE,
                 roles |-> {}, channels |-> {}] ]

Init ==
    /\ config = DefaultServer
    /\ snapshot = DefaultServer
    /\ store \in {[present |-> b, server |-> DefaultServer] : b \in BOOLEAN}
    /\ roles = {EveryoneRole, BotRole, UserRole}
    /\ channels = {UserChannel}
    /\ nextId = FirstFreshId
    /\ pc = "idle"
    /\ loc = InitLoc
    /\ log = <<>>
    /\ ret = NoResult
    /\ pre = InitPre
    /\ budget = [faults |-> MaxFaults, runs |-> MaxRuns, ext |-> MaxExtDeletes]

Next ==
    \/ Invoke \/ SetupLoad \/ SetupSnaphot \/ SetupGateCheck \/ GateTimeout
    \/ GateInteraction \/ SetupDispatch
    \/ PsResolveRole \/ PsRolesCheck \/ PsDelete \/ PsReorder \/ PsRoad \/ PsUpdate \/ PsReturn
    \/ CsResolveCategory \/ CsCategoriesCheck \/ CsResolveChannel \/ CsChannelsCheck
    \/ CsDelete \/ CsRollback \/ CsReorder \/ CsUpdate \/ CsReturn
    \/ FsRollback \/ FsReturn
    \/ SetupFinalUpdate
    \/ ExtDelete

Spec == Init /\ [][Next]_vars

---------------------------------------------------------------------------
(* The setup command of setup_command/handler.rs (lines 42-379), an        *)
(* earlier revision of the command that is still part of the crate.  Its   *)
(* partial_setup loads the server and holds the gate itself; from the      *)
(* role resolutions on it runs the steps modelled above.                   *)

\* setup is invoked (handler.rs 42-43).
HInvoke ==
    /\ pc = "idle"
    /\ budget.runs > 0
    /\ \E t \in SetupTypes :
          loc' = [InitLoc EXCEPT !.setup_type = t, !.rev = "handler",
                                 !.full = (t = "FullSetup")]
    /\ budget' = [budget EXCEPT !.runs = @ - 1]
    /\ pc' = "h_defer"
    /\ log' = <<>>
    /\ ret' = NoResult
    /\ pre' = [pre EXCEPT !.op = "setup", !.roles = roles, !.channels = channels,
                          !.faults = budget.faults, !.phase = "none", !.phase_log = 0]
    /\ UNCHANGED <<config, snapshot, store, roles, channels, nextId>>

\* ctx.defer().await.unwrap() (handler.rs 44)
HDefer ==
    /\ pc = "h_defer"
    /\ \E ok \in BOOLEAN :
        /\ FaultCost(TRUE, ok) <= budget.faults
        /\ budget' = Spend(FaultCost(TRUE, ok))
        /\ log' = Append(log, Call("defer", 0, ok, "setup", "none"))
        /\ IF ok THEN pc' = "h_universe" /\ ret' = ret
                 ELSE pc' = "idle" /\ ret' = Err("panic")
    /\ UNCHANGED <<config, snapshot, store, roles, channels, nextId, loc, pre>>

\* partial_setup's universe lookup (handler.rs 96-108): an error or no
\* universe returns setup__universe_not_found.  A guild belongs to a
\* universe exactly when the store holds its server document.  In
\* full_setup the lookup is partial_setup's first await, at which join!
\* polls complementary_setup.
HUniverse ==
    /\ pc = "h_universe"
    /\ \E ok \in BOOLEAN :
        /\ FaultCost(TRUE, ok) <= budget.faults
        /\ budget' = Spend(FaultCost(TRUE, ok))
        /\ log' = Append(log, Call("get_universe_by_server_id", ServerId, ok, "partial_setup", "none"))
        /\ LET found == ok /\ store.present
               next == IF found THEN "h_server" ELSE "ps_return"
           IN  /\ loc' = [loc EXCEPT
                     !.result = IF found THEN @
                                ELSE [ok |-> FALSE, key |-> <<"setup__universe_not_found">>],
                     !.h_next = next]
               /\ pc' = IF loc.full THEN "h_stub" ELSE next
    /\ UNCHANGED <<config, snapshot, store, roles, channels, nextId, ret, pre>>

\* complementary_setup of handler.rs (lines 371-373) has an empty body: polled
\* by join!, it completes at once and issues no call.
HComplementaryStub ==
    /\ pc = "h_stub"
    /\ pc' = loc.h_next
    /\ loc' = [loc EXCEPT !.h_next = "stub_done"]
    /\ UNCHANGED <<config, snapshot, store, roles, channels, nextId, log, ret, pre, budget>>

\* Server::get_server_by_id (handler.rs 110-114): an error or no document
\* returns setup__server_not_found.
HServer ==
    /\ pc = "h_server"
    /\ \E ok \in BOOLEAN :
        /\ FaultCost(TRUE, ok) <= budget.faults
        /\ budget' = Spend(FaultCost(TRUE, ok))
        /\ log' = Append(log, Call("get_server_by_id", ServerId, ok, "partial_setup", "none"))
        /\ IF ok /\ store.present
           THEN /\ pc' = "h_gate_check"
                /\ config' = store.server
                /\ pre' = [pre EXCEPT !.config = store.server]
                /\ loc' = loc
           ELSE /\ pc' = "ps_return"
                /\ loc' = [loc EXCEPT !.result = [ok |-> FALSE, key |-> <<"setup__server_not_found">>]]
                /\ UNCHANGED <<config, pre>>
    /\ UNCHANGED <<snapshot, store, roles, channels, nextId, ret>>

\* The gate condition of handler.rs 116-120.
HandlerGateFields ==
    { "admin_role_id", "moderator_role_id", "spectator_role_id", "player_role_id",
      "road_category_id" }

\* handler.rs 116-137: the prompt is sent (unwrapped) when the condition
\* holds, else the role resolutions start.
HGateCheck ==
    /\ pc = "h_gate_check"
    /\ IF \E f \in HandlerGateFields : IsSome(config[f])
       THEN \E ok \in BOOLEAN :
            /\ FaultCost(TRUE, ok) <= budget.faults
            /\ budget' = Spend(FaultCost(TRUE, ok))
            /\ log' = Append(log, Call("send", 0, ok, "gate", "cancel/continue"))
            /\ IF ok
               THEN /\ pc' = "h_gate_wait" /\ ret' = ret /\ pre' = pre
                    /\ loc' = [loc EXCEPT !.gate = "shown"]
               ELSE /\ pc' = "idle" /\ ret' = Err("panic") /\ pre' = pre
                    /\ loc' = loc
       ELSE /\ pc' = "ps_role"
            /\ pre' = [pre EXCEPT !.phase = "partial", !.phase_config = config,
                                  !.phase_log = Len(log)]
            /\ UNCHANGED <<budget, log, ret, loc>>
    /\ UNCHANGED <<config, snapshot, store, roles, channels, nextId>>

\* handler.rs 139-157: on a timeout and on an interaction alike the prompt is
\* deleted (unwrapped); a timeout returns the timeout error, "cancel"
\* returns Ok("setup__canceled"), any other button continues.
HGateAnswer ==
    /\ pc = "h_gate_wait"
    /\ \E answer \in CustomIds \cup {"timeout"}, ok \in BOOLEAN :
        /\ FaultCost(TRUE, ok) <= budget.faults
        /\ budget' = Spend(FaultCost(TRUE, ok))
        /\ log' = Append(log, Call("message_delete", 0, ok, "gate", answer))
        /\ IF ~ok
           THEN /\ pc' = "idle" /\ ret' = Err("panic") /\ loc' = loc /\ pre' = pre
           ELSE IF answer = "timeout"
           THEN /\ pc' = "ps_return" /\ ret' = ret /\ pre' = pre
                /\ loc' = [loc EXCEPT !.result =
                              [ok |-> FALSE, key |-> <<"setup__server_already_setup_timeout">>]]
           ELSE IF IsCancel(answer)
           THEN /\ pc' = "ps_return" /\ ret' = ret /\ pre' = pre
                /\ loc' = [loc EXCEPT !.result = [ok |-> TRUE, key |-> <<"setup__canceled">>]]
           ELSE /\ pc' = "ps_role" /\ ret' = ret
                /\ loc' = [loc EXCEPT !.gate = "continued"]
                /\ pre' = [pre EXCEPT !.phase = "partial", !.phase_config = config,
                                      !.phase_log = Len(log')]
    /\ UNCHANGED <<config, snapshot, store, roles, channels, nextId>>

\* full_setup of handler.rs (lines 374-379): the two futures are joined, the
\* pair of results is dropped and Ok("") is returned.
HJoin ==
    /\ pc = "h_join"
    /\ loc' = [loc EXCEPT !.result = [ok |-> TRUE, key |-> <<"">>]]
    /\ pc' = "h_reply"
    /\ UNCHANGED <<config, snapshot, store, roles, channels, nextId, log, ret, pre, budget>>

\* setup's reply (handler.rs 51-88): the success message is sent with `?`,
\* a failure to send the error message is only logged; then Ok(()).
HReply ==
    /\ pc = "h_reply"
    /\ \E ok \in BOOLEAN :
        /\ FaultCost(TRUE, ok) <= budget.faults
        /\ budget' = Spend(FaultCost(TRUE, ok))
        /\ log' = Append(log, Call("send", 0, ok, "setup",
                                   IF loc.result.ok THEN "success" ELSE "error"))
        /\ ret' = IF loc.result.ok /\ ~ok THEN Err("serenity_error") ELSE Ok("unit")
    /\ pc' = "idle"
    /\ UNCHANGED <<config, snapshot, store, roles, channels, nextId, loc, pre>>

HandlerNext ==
    \/ HInvoke \/ HDefer \/ HUniverse \/ HComplementaryStub \/ HServer
    \/ HGateCheck \/ HGateAnswer
    \/ PsResolveRole \/ PsRolesCheck \/ PsDelete \/ PsReorder \/ PsRoad \/ PsUpdate \/ PsReturn
    \/ HJoin \/ HReply
    \/ ExtDelete

SpecHandler == Init /\ [][HandlerNext]_vars

---------------------------------------------------------------------------
(* What the harnesses leave alone *)

NoLoc == [op |-> "none"]
NoPre == [op |-> "none"]
NoBudget == [faults |-> 0, runs |-> 0, ext |-> 0]
NoRet == [ok |-> TRUE, key |-> "none"]

---------------------------------------------------------------------------
(* Rollback harness: Server::rollback on bounded inputs.                   *)
(* config and snapshot agree except on at most MaxDiff fields; a field     *)
(* that differs has one of the three shapes below.                         *)

DiffShapes == {"some_none", "none_some", "some_other"}

Groups == {"Role", "Category", "Channel"}

BaseId(f) == FieldIndex(f)
AltId(f) == FieldIndex(f) + Len(RefFields)

RbConfig(D, shape, pop) ==
    [f \in ServerFields |->
        IF f \in MetaFields THEN ServerId
        ELSE IF f \in D
             THEN (IF shape[f] = "none_some" THEN None ELSE Id(AltId(f), KindOf(f)))
        ELSE IF KindOf(f) \in pop THEN Id(BaseId(f), KindOf(f))
        ELSE None]

RbSnapshot(D, shape, pop) ==
    [f \in ServerFields |->
        IF f \in MetaFields THEN ServerId
        ELSE IF f \in D
             THEN (IF shape[f] = "some_none" THEN None ELSE Id(BaseId(f), KindOf(f)))
        ELSE IF KindOf(f) \in pop THEN Id(BaseId(f), KindOf(f))
        ELSE None]

RbInit ==
    /\ \E D \in SUBSET RollbackFieldSet :
        /\ Cardinality(D) <= MaxDiff
        /\ \E shape \in [D -> DiffShapes] : \E pop \in SUBSET Groups :
            /\ config = RbConfig(D, shape, pop)
            /\ snapshot = RbSnapshot(D, shape, pop)
            /\ pre = [op |-> "rollback", config |-> RbConfig(D, shape, pop)]
    /\ store = [present |-> TRUE, server |-> DefaultServer]
    /\ roles = {}
    /\ channels = {}
    /\ nextId = 0
    /\ pc = "rollback"
    /\ loc = NoLoc
    /\ log = <<>>
    /\ ret = NoRet
    /\ budget = NoBudget

\* server.rollback(ctx, snapshot).await with an arbitrary set of failing
\* remote deletes.
RbRollback ==
    /\ pc = "rollback"
    /\ \E fails \in SUBSET {f \in Range(DeleteFutures(config, snapshot)) : IsSome(config[f])} :
        /\ config' = RollbackServer(config, snapshot, fails)
        /\ log' = log \o RollbackCalls(config, snapshot, fails)
        /\ loc' = [op |-> "rollback", errors |-> RollbackErrors(config, snapshot, fails)]
    /\ pc' = "returned"
    /\ ret' = [ok |-> TRUE, key |-> "unit"]
    /\ UNCHANGED <<snapshot, store, roles, channels, nextId, pre, budget>>

RbNext == RbRollback

SpecRollback == RbInit /\ [][RbNext]_vars

---------------------------------------------------------------------------
(* Snapshot harness: Server::snaphot on bounded inputs.  At most           *)
(* MaxPopulated reference fields are populated; the id of each may or may  *)
(* not be in the live role list and in the live channel list.              *)

SnConfig(P) ==
    [f \in ServerFields |->
        IF f \in MetaFields THEN ServerId
        ELSE IF f \in P THEN Id(BaseId(f), KindOf(f)) ELSE None]

SnInit ==
    /\ \E P \in SUBSET RefFieldSet :
        /\ Cardinality(P) <= MaxPopulated
        /\ config = SnConfig(P)
        /\ pre = [op |-> "snaphot", config |-> SnConfig(P)]
        /\ \E rl \in SUBSET {BaseId(f) : f \in P} : roles = rl \cup {AltId("everyone_role_id")}
        /\ \E cl \in SUBSET {BaseId(f) : f \in P} : channels = cl
    /\ snapshot = DefaultServer
    /\ store = [present |-> TRUE, server |-> DefaultServer]
    /\ nextId = 0
    /\ pc = "snaphot"
    /\ loc = NoLoc
    /\ log = <<>>
    /\ ret = NoRet
    /\ budget = NoBudget

\* let server_snapshot = server.clone().snaphot(ctx).await
SnSnaphot ==
    /\ pc = "snaphot"
    /\ snapshot' = Snaphot(config, roles, channels)
    /\ log' = log \o << Call("get_guild_roles", ServerId, TRUE, "snaphot", "none"),
                        Call("get_channels", ServerId, TRUE, "snaphot", "none") >>
    /\ pc' = "returned"
    /\ ret' = [ok |-> TRUE, key |-> "snapshot"]
    /\ UNCHANGED <<config, store, roles, channels, nextId, loc, pre, budget>>

SnNext == SnSnaphot

SpecSnapshot == SnInit /\ [][SnNext]_vars

---------------------------------------------------------------------------
(* Gate harness: _setup up to its dispatch, on a stored config in which at *)
(* most MaxPopulated reference fields are populated, their resources live. *)

GtInit ==
    /\ \E P \in SUBSET RefFieldSet :
        /\ Cardinality(P) <= MaxPopulated
        /\ store = [present |-> TRUE, server |-> SnConfig(P)]
        /\ roles = {EveryoneRole, BotRole}
                   \cup {BaseId(f) : f \in P \cap (RoleFieldSet \cup {"everyone_role_id"})}
        /\ channels = {BaseId(f) : f \in P \ (RoleFieldSet \cup {"everyone_role_id"})}
    /\ \E t \in SetupTypes : loc = [InitLoc EXCEPT !.setup_type = t]
    /\ config = DefaultServer
    /\ snapshot = DefaultServer
    /\ nextId = FirstFreshId
    /\ pc = "load"
    /\ log = <<>>
    /\ ret = NoResult
    /\ pre = [InitPre EXCEPT !.op = "_setup"]
    /\ budget = [faults |-> MaxFaults, runs |-> 0, ext |-> 0]

GtNext ==
    \/ SetupLoad \/ SetupSnaphot \/ SetupGateCheck \/ GateTimeout
    \/ GateIgnored \/ GateInteraction \/ SetupDispatch

SpecGate == GtInit /\ [][GtNext]_vars

---------------------------------------------------------------------------
(* The universe and server collections: _create_universe                   *)
(* (create_universe_command/handler.rs 135-190) and _add_server             *)
(* (universe/add_server_sub_command.rs 21-101), run by concurrent command   *)
(* invocations.  Here store holds the two collections of the database and   *)
(* whether the unique index on server_id exists; pc, loc and ret are        *)
(* indexed by invocation slot.                                              *)

MaxGuilds == 3
MaxCreators == 1
MaxSlots == 2
MaxInvocations == 3

\* database/universe.rs 16
FREE_LIMIT_UNIVERSE == 2

\* universe.rs 18: the limit of servers per universe, which no function reads.
FREE_LIMIT_SERVERS_PER_UNIVERSE == 2

UvGuilds == 1..MaxGuilds
UvCreators == 1..MaxCreators
UvSlots == 1..MaxSlots

\* The universes of a creator: the filter {creator_id} of
\* check_universe_limit and get_creator_universes (universe.rs 236, 289).
CreatorUniverses(st, user) == { u \in st.universes : u.creator = user }

\* The server documents of a guild: the filter {server_id} (server.rs 499,
\* universe.rs 128).
GuildServers(st, guild) == { d \in st.servers : d.server_id = guild }

\* check_universe_conditions_for_creation's verdict on the creator's count
\* (create_universe_command/logic.rs 54-57), which no command calls.
UniverseConditionsAllow(count) == ~(count >= FREE_LIMIT_UNIVERSE)

\* check_universe_limit's verdict (universe.rs 296).
WithinUniverseLimit(count) == count <= FREE_LIMIT_UNIVERSE

\* check_server_limit's verdict (universe.rs 654-663): the count of a
\* universe's servers is compared with FREE_LIMIT_UNIVERSE.
WithinServerLimit(count) == ~(count >= FREE_LIMIT_UNIVERSE)

\* Universe::get_universe_by_server_id (universe.rs 119-152): the guild's
\* server documents joined with their universes.
UniversesOfGuild(st, guild) ==
    { u \in st.universes : \E d \in GuildServers(st, guild) : d.universe_id = u.id }

\* A unique index that rejects nothing.
InsertAccepted_always(st, guild) == TRUE

\* Whether insert_one accepts a server document (server.rs 208-215): the
\* unique index on server_id (db_client.rs 102-112), where it exists,
\* rejects a second document of a guild.
InsertAccepted(st, guild) == ~st.index \/ GuildServers(st, guild) = {}

UvIdle == [op |-> "none", user |-> 0, guild |-> 0, universe |-> 0, owned |-> 0, options |-> {}]

\* main (main.rs 45-52): constraint() creates the unique index and drops the
\* result of create_index (db_client.rs 108-112), so the bot starts with or
\* without the index.
UvInit ==
    /\ \E index \in BOOLEAN :
          store = [universes |-> {}, servers |-> {}, index |-> index]
    /\ pc = [p \in UvSlots |-> "idle"]
    /\ loc = [p \in UvSlots |-> UvIdle]
    /\ ret = [p \in UvSlots |-> NoRet]
    /\ budget = [faults |-> MaxFaults, runs |-> MaxInvocations, ext |-> 0]
    /\ nextId = 1
    /\ log = <<>>
    /\ config = DefaultServer
    /\ snapshot = DefaultServer
    /\ roles = {}
    /\ channels = {}
    /\ pre = NoPre

\* What an invocation leaves alone.
UvFrame == UNCHANGED <<config, snapshot, roles, channels, log, pre>>

\* A step of slot p that returns r.
UvReturn(p, r) ==
    /\ pc' = [pc EXCEPT ![p] = "idle"]
    /\ ret' = [ret EXCEPT ![p] = r]

\* A step of slot p that goes on at label l.
UvGoto(p, l) ==
    /\ pc' = [pc EXCEPT ![p] = l]
    /\ ret' = ret

\* A user invokes create_universe or add_server in a guild.
UvInvoke(p) ==
    /\ pc[p] = "idle"
    /\ budget.runs > 0
    /\ \E op \in {"create_universe", "add_server"}, user \in UvCreators, guild \in UvGuilds :
        /\ loc' = [loc EXCEPT ![p] = [op |-> op, user |-> user, guild |-> guild,
                                      universe |-> 0,
                                      owned |-> Cardinality(CreatorUniverses(store, user)),
                                      options |-> {}]]
        /\ pc' = [pc EXCEPT ![p] = IF op = "create_universe" THEN "cu_limit" ELSE "as_check"]
    /\ ret' = [ret EXCEPT ![p] = NoRet]
    /\ budget' = [budget EXCEPT !.runs = @ - 1]
    /\ UNCHANGED <<store, nextId>>
    /\ UvFrame


\* _create_universe: check_universe_limit (handler.rs 140-143).
CuLimit(p) ==
    /\ pc[p] = "cu_limit"
    /\ \E ok \in BOOLEAN :
        /\ FaultCost(TRUE, ok) <= budget.faults
        /\ budget' = Spend(FaultCost(TRUE, ok))
        /\ IF ~ok
           THEN UvReturn(p, Err("create_universe__check_universe_limit_failed"))
           ELSE IF ~WithinUniverseLimit(Cardinality(CreatorUniverses(store, loc[p].user)))
           THEN UvReturn(p, Err("create_universe__universe_limit_reached"))
           ELSE UvGoto(p, "cu_server")
    /\ UNCHANGED <<store, nextId, loc>>
    /\ UvFrame

\* _create_universe: the guild must have no server document (handler.rs 145-148).
CuServer(p) ==
    /\ pc[p] = "cu_server"
    /\ \E ok \in BOOLEAN :
        /\ FaultCost(TRUE, ok) <= budget.faults
        /\ budget' = Spend(FaultCost(TRUE, ok))
        /\ IF ~ok
           THEN UvReturn(p, Err("create_universe__get_server_failed"))
           ELSE IF GuildServers(store, loc[p].guild) # {}
           THEN UvReturn(p, Err("create_universe__already_exist_for_this_server"))
           ELSE UvGoto(p, "cu_insert_universe")
    /\ UNCHANGED <<store, nextId, loc>>
    /\ UvFrame

\* _create_universe: insert_universe (handler.rs 150-158, 168).
CuInsertUniverse(p) ==
    /\ pc[p] = "cu_insert_universe"
    /\ \E ok \in BOOLEAN :
        /\ FaultCost(TRUE, ok) <= budget.faults
        /\ budget' = Spend(FaultCost(TRUE, ok))
        /\ IF ok
           THEN /\ store' = [store EXCEPT !.universes =
                                @ \cup {[id |-> nextId, creator |-> loc[p].user]}]
                /\ loc' = [loc EXCEPT ![p].universe = nextId]
                /\ nextId' = nextId + 1
                /\ UvGoto(p, "cu_constraints")
           ELSE /\ UvReturn(p, Err("create_universe__universe_insert_failed"))
                /\ UNCHANGED <<store, loc, nextId>>
    /\ UvFrame

\* _create_universe: setup_constraints (handler.rs 160); on failure the
\* universe stays inserted.
CuConstraints(p) ==
    /\ pc[p] = "cu_constraints"
    /\ \E ok \in BOOLEAN :
        /\ FaultCost(TRUE, ok) <= budget.faults
        /\ budget' = Spend(FaultCost(TRUE, ok))
        /\ IF ok THEN UvGoto(p, "cu_insert_server")
                 ELSE UvReturn(p, Err("create_universe__setup_constraints_failed"))
    /\ UNCHANGED <<store, nextId, loc>>
    /\ UvFrame

\* _create_universe: insert_server (handler.rs 162-166); on failure the
\* universe stays inserted.
CuInsertServer(p) ==
    /\ pc[p] = "cu_insert_server"
    /\ \E ok \in BOOLEAN :
        LET can == InsertAccepted(store, loc[p].guild)
        IN  /\ ok => can
            /\ FaultCost(can, ok) <= budget.faults
            /\ budget' = Spend(FaultCost(can, ok))
            /\ IF ok
               THEN /\ store' = [store EXCEPT !.servers =
                                    @ \cup {[id |-> nextId, server_id |-> loc[p].guild,
                                             universe_id |-> loc[p].universe]}]
                    /\ nextId' = nextId + 1
                    /\ UvGoto(p, "cu_stat")
               ELSE /\ UvReturn(p, Err("create_universe__server_insert_failed"))
                    /\ UNCHANGED <<store, nextId>>
    /\ UNCHANGED loc
    /\ UvFrame

\* Universe::delete (universe.rs 535-573): the universe document and one
\* server document of the universe are deleted by two joined calls, each of
\* which may fail.
UniverseDelete(st, universe, okUniverse, okServer, doc) ==
    [st EXCEPT !.universes = IF okUniverse THEN { u \in @ : u.id # universe } ELSE @,
               !.servers = IF okServer THEN @ \ {doc} ELSE @]

\* _create_universe: the speed stat is inserted (handler.rs 171-185); when
\* that fails the universe is deleted again, `?` returning a failure of
\* the deletion in place of the stat error.
CuStat(p) ==
    /\ pc[p] = "cu_stat"
    /\ \E ok, okUniverse, okServer \in BOOLEAN :
        LET cost == FaultCost(TRUE, ok) + FaultCost(TRUE, okUniverse) + FaultCost(TRUE, okServer)
            docs == { d \in store.servers : d.universe_id = loc[p].universe }
        IN  /\ ok => (okUniverse /\ okServer)
            /\ cost <= budget.faults
            /\ budget' = Spend(cost)
            /\ IF ok
               THEN /\ store' = store
                    /\ UvGoto(p, "cu_setup")
               ELSE /\ \E doc \in (IF docs = {} THEN {UvIdle} ELSE docs) :
                          store' = UniverseDelete(store, loc[p].universe, okUniverse, okServer, doc)
                    /\ UvReturn(p, IF okUniverse /\ okServer
                                   THEN Err("create_universe__speed_stat_insert_failed")
                                   ELSE Err("universe_delete__failed"))
    /\ UNCHANGED <<nextId, loc>>
    /\ UvFrame

\* _create_universe: _setup(ctx, setup_type).await? (handler.rs 187-189).
\* _setup reads the guild's server document and updates it by _id
\* (server.rs 224-237): it inserts and deletes no document, so only its
\* outcome is drawn here.
CuSetup(p) ==
    /\ pc[p] = "cu_setup"
    /\ \E ok \in BOOLEAN :
        /\ FaultCost(TRUE, ok) <= budget.faults
        /\ budget' = Spend(FaultCost(TRUE, ok))
        /\ UvReturn(p, IF ok THEN Ok("create_universe__universe_successfully_created")
                             ELSE Err("setup_server__failed"))
    /\ UNCHANGED <<store, nextId, loc>>
    /\ UvFrame


\* _add_server: check_server_in_universe (add_server_sub_command.rs 22-24,
\* 137-144); a failed lookup counts as "not bound".
AsCheck(p) ==
    /\ pc[p] = "as_check"
    /\ \E ok \in BOOLEAN :
        /\ FaultCost(TRUE, ok) <= budget.faults
        /\ budget' = Spend(FaultCost(TRUE, ok))
        /\ IF ok /\ UniversesOfGuild(store, loc[p].guild) # {}
           THEN UvReturn(p, Ok("add_server_to_universe__already_bind"))
           ELSE UvGoto(p, "as_universes")
    /\ UNCHANGED <<store, nextId, loc>>
    /\ UvFrame

\* _add_server: the creator's universes are listed (unwrapped) and become
\* the options of the select menu (add_server_sub_command.rs 26-43).
AsUniverses(p) ==
    /\ pc[p] = "as_universes"
    /\ \E ok \in BOOLEAN :
        /\ FaultCost(TRUE, ok) <= budget.faults
        /\ budget' = Spend(FaultCost(TRUE, ok))
        /\ LET universes == CreatorUniverses(store, loc[p].user)
           IN IF ~ok
              THEN UvReturn(p, Err("panic")) /\ loc' = loc
              ELSE IF universes = {}
              THEN UvReturn(p, Err("add_server_to_universe__universes_unavailable")) /\ loc' = loc
              ELSE /\ UvGoto(p, "as_send")
                   /\ loc' = [loc EXCEPT ![p].options = { u.id : u \in universes }]
    /\ UNCHANGED <<store, nextId>>
    /\ UvFrame

\* _add_server: the menu is sent with `?` (add_server_sub_command.rs 45-52).
AsSend(p) ==
    /\ pc[p] = "as_send"
    /\ \E ok \in BOOLEAN :
        /\ FaultCost(TRUE, ok) <= budget.faults
        /\ budget' = Spend(FaultCost(TRUE, ok))
        /\ IF ok THEN UvGoto(p, "as_collect") ELSE UvReturn(p, Err("serenity_error"))
    /\ UNCHANGED <<store, nextId, loc>>
    /\ UvFrame

\* _add_server: the collector (add_server_sub_command.rs 56-63, 98-100).  A
\* timeout ends the loop and Ok("") is returned; a selection deletes the
\* menu, ignoring the outcome, and goes on with the chosen universe.
AsCollect(p) ==
    /\ pc[p] = "as_collect"
    /\ \/ /\ UvReturn(p, Ok(""))
          /\ loc' = loc
       \/ \E selected \in loc[p].options :
          /\ loc' = [loc EXCEPT ![p].universe = selected]
          /\ UvGoto(p, "as_universe")
    /\ UNCHANGED <<store, nextId, budget>>
    /\ UvFrame

\* _add_server: get_universe_by_id (add_server_sub_command.rs 65).
AsUniverse(p) ==
    /\ pc[p] = "as_universe"
    /\ \E ok \in BOOLEAN :
        /\ FaultCost(TRUE, ok) <= budget.faults
        /\ budget' = Spend(FaultCost(TRUE, ok))
        /\ IF ~ok THEN UvReturn(p, Err("mongodb_error"))
           ELSE IF \A u \in store.universes : u.id # loc[p].universe
           THEN UvReturn(p, Err("placeholder"))
           ELSE UvGoto(p, "as_limit")
    /\ UNCHANGED <<store, nextId, loc>>
    /\ UvFrame

\* _add_server: check_server_limit (add_server_sub_command.rs 67-71).
AsLimit(p) ==
    /\ pc[p] = "as_limit"
    /\ \E ok \in BOOLEAN :
        /\ FaultCost(TRUE, ok) <= budget.faults
        /\ budget' = Spend(FaultCost(TRUE, ok))
        /\ LET count == Cardinality({ d \in store.servers : d.universe_id = loc[p].universe })
           IN IF ~ok THEN UvReturn(p, Err("universe__check_server_limit_failed"))
              ELSE IF ~WithinServerLimit(count)
              THEN UvReturn(p, Err("exceed_limit_number_of_servers_per_universe"))
              ELSE UvGoto(p, "as_insert_server")
    /\ UNCHANGED <<store, nextId, loc>>
    /\ UvFrame

\* _add_server: insert_server with `?` (add_server_sub_command.rs 73-92).
AsInsertServer(p) ==
    /\ pc[p] = "as_insert_server"
    /\ \E ok \in BOOLEAN :
        LET can == InsertAccepted(store, loc[p].guild)
        IN  /\ ok => can
            /\ FaultCost(can, ok) <= budget.faults
            /\ budget' = Spend(FaultCost(can, ok))
            /\ IF ok
               THEN /\ store' = [store EXCEPT !.servers =
                                    @ \cup {[id |-> nextId, server_id |-> loc[p].guild,
                                             universe_id |-> loc[p].universe]}]
                    /\ nextId' = nextId + 1
                    /\ UvGoto(p, "as_setup")
               ELSE /\ UvReturn(p, Err("mongodb_error"))
                    /\ UNCHANGED <<store, nextId>>
    /\ UNCHANGED loc
    /\ UvFrame

\* _add_server: _setup(&ctx, setup_type).await? (add_server_sub_command.rs
\* 93-95); as in _create_universe only its outcome is drawn.
AsSetup(p) ==
    /\ pc[p] = "as_setup"
    /\ \E ok \in BOOLEAN :
        /\ FaultCost(TRUE, ok) <= budget.faults
        /\ budget' = Spend(FaultCost(TRUE, ok))
        /\ UvReturn(p, IF ok THEN Ok("add_server_to_universe__guild_linked")
                             ELSE Err("setup_server__failed"))
    /\ UNCHANGED <<store, nextId, loc>>
    /\ UvFrame

UvNext ==
    \E p \in UvSlots :
        \/ UvInvoke(p)
        \/ CuLimit(p) \/ CuServer(p) \/ CuInsertUniverse(p) \/ CuConstraints(p)
        \/ CuInsertServer(p) \/ CuStat(p) \/ CuSetup(p)
        \/ AsCheck(p) \/ AsUniverses(p) \/ AsSend(p) \/ AsCollect(p) \/ AsUniverse(p)
        \/ AsLimit(p) \/ AsInsertServer(p) \/ AsSetup(p)

SpecUniverse == UvInit /\ [][UvNext]_vars

---------------------------------------------------------------------------
(* _create_road (create_road_command/handler.rs 78-182) and _create_place   *)
(* (place/create_place_sub_command.rs 53-128): a role, then a channel, then  *)
(* a record in the store; a failure after the role deletes what was         *)
(* created.  Here store holds the server document and the roads and places  *)
(* collections.                                                             *)

CrIdle == [op |-> "none", role |-> 0, channel |-> 0, cause |-> "none"]

\* What a lookup of a place by its category returns: Ok(Some), Ok(None), Err.
LookupResults == {"some", "none", "err"}

CrInit ==
    /\ config = DefaultServer
    /\ snapshot = DefaultServer
    /\ \E present, road \in BOOLEAN :
        /\ store = [present |-> present,
                    server |-> IF road THEN SnConfig({"road_category_id"}) ELSE DefaultServer,
                    roads |-> {}, places |-> {}]
        /\ channels = IF road THEN {BaseId("road_category_id")} ELSE {}
    /\ roles = {EveryoneRole, BotRole}
    /\ nextId = FirstFreshId + Len(RefFields)
    /\ pc = "idle"
    /\ loc = CrIdle
    /\ log = <<>>
    /\ ret = NoResult
    /\ pre = InitPre
    /\ budget = [faults |-> MaxFaults, runs |-> MaxRuns, ext |-> 0]

\* The function returns r.
CrReturn(r) == pc' = "idle" /\ ret' = r

\* /road create_road is invoked (handler.rs 16-29).
RdInvoke ==
    /\ pc = "idle"
    /\ budget.runs > 0
    /\ budget' = [budget EXCEPT !.runs = @ - 1]
    /\ loc' = [CrIdle EXCEPT !.op = "_create_road"]
    /\ pc' = "rd_load"
    /\ log' = <<>>
    /\ ret' = NoResult
    /\ pre' = [pre EXCEPT !.op = "_create_road", !.roles = roles, !.channels = channels]
    /\ UNCHANGED <<config, snapshot, store, roles, channels, nextId>>

\* get_server_by_id and the match on its result (handler.rs 81-90).
RdLoad ==
    /\ pc = "rd_load"
    /\ \E ok \in BOOLEAN :
        /\ FaultCost(TRUE, ok) <= budget.faults
        /\ budget' = Spend(FaultCost(TRUE, ok))
        /\ log' = Append(log, Call("get_server_by_id", ServerId, ok, "_create_road", "none"))
        /\ IF ~ok THEN CrReturn(Err("create_road__database_error"))
           ELSE IF ~store.present THEN CrReturn(Err("create_road__server_not_found"))
           ELSE pc' = "rd_places" /\ ret' = ret
    /\ UNCHANGED <<config, snapshot, store, roles, channels, nextId, loc, pre>>

\* The result of the two joined lookups (handler.rs 97-115): the first is
\* matched before the second.
PlacesError(r1, r2) ==
    IF r1 = "none" THEN "create_place__place_one_not_found"
    ELSE IF r1 = "err" THEN "create_road__database_error"
    ELSE IF r2 = "none" THEN "create_place__place_two_not_found"
    ELSE IF r2 = "err" THEN "create_road__database_error"
    ELSE "none"

\* check_existing_place for both places, joined (handler.rs 94-115).
RdPlaces ==
    /\ pc = "rd_places"
    /\ \E r1, r2 \in LookupResults :
        LET cost == FaultCost(TRUE, r1 # "err") + FaultCost(TRUE, r2 # "err")
        IN  /\ cost <= budget.faults
            /\ budget' = Spend(cost)
            /\ log' = log \o << Call("check_existing_place", 0, r1 # "err", "place_one", r1),
                                Call("check_existing_place", 0, r2 # "err", "place_two", r2) >>
            /\ IF PlacesError(r1, r2) # "none"
               THEN CrReturn(Err(PlacesError(r1, r2)))
               ELSE pc' = "rd_role" /\ ret' = ret
    /\ UNCHANGED <<config, snapshot, store, roles, channels, nextId, loc, pre>>

\* create_role (handler.rs 119-128).
RdRole ==
    /\ pc = "rd_role"
    /\ \E ok \in BOOLEAN :
        /\ FaultCost(TRUE, ok) <= budget.faults
        /\ budget' = Spend(FaultCost(TRUE, ok))
        /\ log' = Append(log, Call("create_role", IF ok THEN nextId ELSE 0, ok, "_create_road", "none"))
        /\ IF ok
           THEN /\ roles' = roles \cup {nextId} /\ nextId' = nextId + 1
                /\ loc' = [loc EXCEPT !.role = nextId]
                /\ pc' = "rd_channel" /\ ret' = ret
           ELSE /\ CrReturn(Err("create_road__role_creation_failed"))
                /\ UNCHANGED <<roles, nextId, loc>>
    /\ UNCHANGED <<config, snapshot, store, channels, pre>>

\* The channel is created under server.road_category_id.unwrap() (handler.rs
\* 143-149); without a roads category the unwrap panics.  A failed creation
\* leads to the delete of the role (lines 150-155).
RdChannel ==
    /\ pc = "rd_channel"
    /\ IF ~IsSome(store.server["road_category_id"])
       THEN /\ CrReturn(Err("panic"))
            /\ UNCHANGED <<budget, log, channels, nextId, loc>>
       ELSE \E ok \in BOOLEAN :
            /\ FaultCost(TRUE, ok) <= budget.faults
            /\ budget' = Spend(FaultCost(TRUE, ok))
            /\ log' = Append(log, [Call("create_channel", IF ok THEN nextId ELSE 0, ok,
                                        "_create_road", "Text")
                                     EXCEPT !.parent = store.server["road_category_id"].id])
            /\ ret' = ret
            /\ IF ok
               THEN /\ channels' = channels \cup {nextId} /\ nextId' = nextId + 1
                    /\ loc' = [loc EXCEPT !.channel = nextId]
                    /\ pc' = "rd_insert"
               ELSE /\ loc' = [loc EXCEPT !.cause = "channel"]
                    /\ pc' = "rd_delete_role"
                    /\ UNCHANGED <<channels, nextId>>
    /\ UNCHANGED <<config, snapshot, store, roles, pre>>

\* road.insert() (handler.rs 157-171); its failure starts the rollback.
RdInsert ==
    /\ pc = "rd_insert"
    /\ \E ok \in BOOLEAN :
        /\ FaultCost(TRUE, ok) <= budget.faults
        /\ budget' = Spend(FaultCost(TRUE, ok))
        /\ log' = Append(log, Call("insert", 0, ok, "_create_road", "road"))
        /\ IF ok
           THEN /\ store' = [store EXCEPT !.roads = @ \cup {[role_id |-> loc.role,
                                                              channel_id |-> loc.channel]}]
                /\ CrReturn(Ok("create_road__success"))
                /\ loc' = loc
           ELSE /\ store' = store
                /\ loc' = [loc EXCEPT !.cause = "insert"]
                /\ pc' = "rd_delete_role" /\ ret' = ret
    /\ UNCHANGED <<config, snapshot, roles, channels, nextId, pre>>

\* new_role.delete(ctx) after a failed channel creation (handler.rs 151-154)
\* or a failed insert (lines 174-177): in the second case a failed delete
\* returns at once.
RdDeleteRole ==
    /\ pc = "rd_delete_role"
    /\ \E ok \in BOOLEAN :
        /\ FaultCost(TRUE, ok) <= budget.faults
        /\ budget' = Spend(FaultCost(TRUE, ok))
        /\ log' = Append(log, Call("delete_role", loc.role, ok, "_create_road", loc.cause))
        /\ roles' = IF ok THEN roles \ {loc.role} ELSE roles
        /\ IF loc.cause = "channel"
           THEN CrReturn(IF ok THEN Err("create_road__create_channel_failed_rollback_success")
                         ELSE Err("create_road__create_channel_failed_rollback_failed"))
           ELSE IF ok THEN pc' = "rd_delete_channel" /\ ret' = ret
           ELSE CrReturn(Err("create_road__insert_road_failed_rollback_role_failed"))
    /\ UNCHANGED <<config, snapshot, store, channels, nextId, loc, pre>>

\* channel.delete(ctx) after a failed insert (handler.rs 178-181).
RdDeleteChannel ==
    /\ pc = "rd_delete_channel"
    /\ \E ok \in BOOLEAN :
        /\ FaultCost(TRUE, ok) <= budget.faults
        /\ budget' = Spend(FaultCost(TRUE, ok))
        /\ log' = Append(log, Call("delete_channel", loc.channel, ok, "_create_road", loc.cause))
        /\ channels' = IF ok THEN channels \ {loc.channel} ELSE channels
        /\ CrReturn(IF ok THEN Err("create_road__insert_road_failed_rollback_success")
                    ELSE Err("create_road__insert_road_failed_rollback_channel_failed"))
    /\ UNCHANGED <<config, snapshot, store, roles, nextId, loc, pre>>

\* /create_place is invoked (create_place_sub_command.rs 8-14).
PlInvoke ==
    /\ pc = "idle"
    /\ budget.runs > 0
    /\ budget' = [budget EXCEPT !.runs = @ - 1]
    /\ loc' = [CrIdle EXCEPT !.op = "_create_place"]
    /\ pc' = "pl_load"
    /\ log' = <<>>
    /\ ret' = NoResult
    /\ pre' = [pre EXCEPT !.op = "_create_place", !.roles = roles, !.channels = channels]
    /\ UNCHANGED <<config, snapshot, store, roles, channels, nextId>>

\* get_server_by_id and the match on its result (create_place_sub_command.rs 55-64).
PlLoad ==
    /\ pc = "pl_load"
    /\ \E ok \in BOOLEAN :
        /\ FaultCost(TRUE, ok) <= budget.faults
        /\ budget' = Spend(FaultCost(TRUE, ok))
        /\ log' = Append(log, Call("get_server_by_id", ServerId, ok, "_create_place", "none"))
        /\ IF ~ok THEN CrReturn(Err("create_place__database_not_found"))
           ELSE IF ~store.present THEN CrReturn(Err("create_place__server_not_found"))
           ELSE pc' = "pl_role" /\ ret' = ret
    /\ UNCHANGED <<config, snapshot, store, roles, channels, nextId, loc, pre>>

\* create_role (create_place_sub_command.rs 66-74).
PlRole ==
    /\ pc = "pl_role"
    /\ \E ok \in BOOLEAN :
        /\ FaultCost(TRUE, ok) <= budget.faults
        /\ budget' = Spend(FaultCost(TRUE, ok))
        /\ log' = Append(log, Call("create_role", IF ok THEN nextId ELSE 0, ok, "_create_place", "none"))
        /\ IF ok
           THEN /\ roles' = roles \cup {nextId} /\ nextId' = nextId + 1
                /\ loc' = [loc EXCEPT !.role = nextId]
                /\ pc' = "pl_channel" /\ ret' = ret
           ELSE /\ CrReturn(Err("create_place__role_not_created"))
                /\ UNCHANGED <<roles, nextId, loc>>
    /\ UNCHANGED <<config, snapshot, store, channels, pre>>

\* The category is created (create_place_sub_command.rs 90-102); a failed
\* creation leads to the delete of the role.
PlChannel ==
    /\ pc = "pl_channel"
    /\ \E ok \in BOOLEAN :
        /\ FaultCost(TRUE, ok) <= budget.faults
        /\ budget' = Spend(FaultCost(TRUE, ok))
        /\ log' = Append(log, Call("create_channel", IF ok THEN nextId ELSE 0, ok,
                                   "_create_place", "Category"))
        /\ IF ok
           THEN /\ channels' = channels \cup {nextId} /\ nextId' = nextId + 1
                /\ loc' = [loc EXCEPT !.channel = nextId]
                /\ pc' = "pl_insert"
           ELSE /\ loc' = [loc EXCEPT !.cause = "channel"]
                /\ pc' = "pl_delete_role"
                /\ UNCHANGED <<channels, nextId>>
    /\ UNCHANGED <<config, snapshot, store, roles, ret, pre>>

\* place.insert_place() (create_place_sub_command.rs 104-115); its failure
\* starts the rollback.
PlInsert ==
    /\ pc = "pl_insert"
    /\ \E ok \in BOOLEAN :
        /\ FaultCost(TRUE, ok) <= budget.faults
        /\ budget' = Spend(FaultCost(TRUE, ok))
        /\ log' = Append(log, Call("insert", 0, ok, "_create_place", "place"))
        /\ IF ok
           THEN /\ store' = [store EXCEPT !.places = @ \cup {[role |-> loc.role,
                                                               category_id |-> loc.channel]}]
                /\ CrReturn(Ok("create_place__success"))
                /\ loc' = loc
           ELSE /\ store' = store
                /\ loc' = [loc EXCEPT !.cause = "insert"]
                /\ pc' = "pl_delete_role" /\ ret' = ret
    /\ UNCHANGED <<config, snapshot, roles, channels, nextId, pre>>

\* role.delete(ctx) after a failed category creation
\* (create_place_sub_command.rs 97-100) or a failed insert (lines 117-120):
\* in the second case a failed delete returns at once.
PlDeleteRole ==
    /\ pc = "pl_delete_role"
    /\ \E ok \in BOOLEAN :
        /\ FaultCost(TRUE, ok) <= budget.faults
        /\ budget' = Spend(FaultCost(TRUE, ok))
        /\ log' = Append(log, Call("delete_role", loc.role, ok, "_create_place", loc.cause))
        /\ roles' = IF ok THEN roles \ {loc.role} ELSE roles
        /\ IF loc.cause = "channel"
           THEN CrReturn(IF ok THEN Err("create_place__rollback_complete")
                         ELSE Err("create_role__rollback_failed"))
           ELSE IF ok THEN pc' = "pl_delete_channel" /\ ret' = ret
           ELSE CrReturn(Err("create_role__rollback_failed"))
    /\ UNCHANGED <<config, snapshot, store, channels, nextId, loc, pre>>

\* new_place.delete(ctx) after a failed insert (create_place_sub_command.rs 122-125).
PlDeleteChannel ==
    /\ pc = "pl_delete_channel"
    /\ \E ok \in BOOLEAN :
        /\ FaultCost(TRUE, ok) <= budget.faults
        /\ budget' = Spend(FaultCost(TRUE, ok))
        /\ log' = Append(log, Call("delete_channel", loc.channel, ok, "_create_place", loc.cause))
        /\ channels' = IF ok THEN channels \ {loc.channel} ELSE channels
        /\ CrReturn(IF ok THEN Err("create_place__rollback_complete")
                    ELSE Err("create_role__rollback_failed"))
    /\ UNCHANGED <<config, snapshot, store, roles, nextId, loc, pre>>

CrNext ==
    \/ RdInvoke \/ RdLoad \/ RdPlaces \/ RdRole \/ RdChannel \/ RdInsert
    \/ RdDeleteRole \/ RdDeleteChannel
    \/ PlInvoke \/ PlLoad \/ PlRole \/ PlChannel \/ PlInsert
    \/ PlDeleteRole \/ PlDeleteChannel

SpecCreate == CrInit /\ [][CrNext]_vars

---------------------------------------------------------------------------
(* Claims about Server::rollback, under SpecRollback *)

\* "differ by remote id, including one side being None", stated on its own.
ClaimDiffers(a, b) ==
    \/ IsSome(a) # IsSome(b)
    \/ IsSome(a) /\ IsSome(b) /\ a.id # b.id

\* The rollback fields in which the input config and the snapshot differ.
RbDiff == {f \in RollbackFieldSet : ClaimDiffers(pre.config[f], snapshot[f])}

RbReturned == pc = "returned" /\ pre.op = "rollback"

\* C5 as stated: when config and snapshot differ in exactly one reference
\* field, rollback issues exactly one remote delete call, and it targets the
\* id config holds in that field.
C5_OneDiffOneDelete ==
    (RbReturned /\ Cardinality(RbDiff) = 1) =>
        \A f \in RbDiff :
            /\ Len(log) = 1
            /\ log[1].op \in DeleteOps
            /\ log[1].what = f
            /\ IsSome(pre.config[f])
            /\ log[1].id = pre.config[f].id

\* C5 amended: when config and snapshot differ in exactly one reference
\* field, rollback issues exactly one remote delete call, targeting config's
\* id and never the snapshot's, if config holds an id in that field, and no
\* remote call at all if config holds None there; equal fields produce no
\* delete call.
C5_OneDiffOneDeleteIfSome ==
    (RbReturned /\ Cardinality(RbDiff) = 1) =>
        \A f \in RbDiff :
            IF IsSome(pre.config[f])
            THEN /\ Len(log) = 1
                 /\ log[1].op = (IF pre.config[f].id_type = "Role"
                                 THEN "delete_role" ELSE "delete_channel")
                 /\ log[1].what = f
                 /\ log[1].id = pre.config[f].id
                 /\ IsSome(snapshot[f]) => log[1].id # snapshot[f].id
            ELSE log = <<>>

\* C5 witness: rollback has returned on inputs that differ in one field,
\* Some on both sides, and issued its one delete.
C5_Witness ==
    /\ RbReturned
    /\ Cardinality(RbDiff) = 1
    /\ \E f \in RbDiff : IsSome(pre.config[f]) /\ IsSome(snapshot[f])
    /\ Len(log) = 1

\* C6 as stated: after rollback returns with every delete call having
\* succeeded, every reference field of config equals the snapshot's value.
C6_FieldsRestored ==
    (RbReturned /\ \A i \in 1..Len(log) : log[i].ok) =>
        \A f \in RefFieldSet :
            /\ IsSome(config[f]) = IsSome(snapshot[f])
            /\ IsSome(config[f]) => config[f].id = snapshot[f].id

\* C7: whatever subset of the delete calls fails, rollback attempts a delete
\* for every field that differs from the snapshot (a remote call on the id
\* the field holds, or the logged "nothing to delete" of a None field),
\* returns normally, and leaves a field whose delete failed holding its id.
C7_BestEffort ==
    RbReturned =>
        /\ ret = [ok |-> TRUE, key |-> "unit"]
        /\ \A f \in RbDiff :
            IF IsSome(pre.config[f])
            THEN \E i \in 1..Len(log) :
                    /\ log[i].what = f
                    /\ log[i].op \in DeleteOps
                    /\ log[i].id = pre.config[f].id
                    /\ ~log[i].ok => config[f] = pre.config[f]
                    /\ ~log[i].ok => f \in loc.errors
            ELSE f \in loc.errors
        /\ \A i \in 1..Len(log) : log[i].what \in RbDiff

\* C7 witness: one delete failed and another field's delete was still issued
\* and succeeded.
C7_Witness ==
    /\ RbReturned
    /\ \E i, j \in 1..Len(log) : i < j /\ ~log[i].ok /\ log[j].ok
    /\ \E i \in 1..Len(log) : ~log[i].ok /\ config[log[i].what] = pre.config[log[i].what]

---------------------------------------------------------------------------
(* Claims about Server::snaphot, under SpecSnapshot *)

SnReturned == pc = "returned" /\ pre.op = "snaphot"

\* The reference fields whose id is absent from the matching live list.
SnVanished ==
    {f \in RefFieldSet :
        /\ IsSome(config[f])
        /\ IF f \in {"admin_role_id", "moderator_role_id", "spectator_role_id",
                     "player_role_id", "everyone_role_id"}
           THEN config[f].id \notin roles
           ELSE config[f].id \notin channels}

\* C8: the snapshot holds None in every reference field whose id is absent
\* from the matching live list (roles for role fields, channels for category
\* and channel fields) and the input's value in every other field, _id,
\* universe_id and server_id included.
C8_SnapshotNullsVanished ==
    SnReturned =>
        /\ \A f \in SnVanished : snapshot[f] = None
        /\ \A f \in ServerFields \ SnVanished : snapshot[f] = config[f]
        /\ config = pre.config

\* C8 witness: a stored channel is absent from the channel listing and was
\* nulled, while another populated field was kept.
C8_Witness ==
    /\ SnReturned
    /\ \E f \in SnVanished : f \in ChannelFieldSet /\ snapshot[f] = None
    /\ \E g \in RefFieldSet \ SnVanished : IsSome(config[g]) /\ snapshot[g] = config[g]

---------------------------------------------------------------------------
(* Claims about the setup phases, under Spec *)

\* The calls the running phase has issued.
PhaseLog == SubSeq(log, pre.phase_log + 1, Len(log))

PartialReturned == pc = "ps_return" /\ pre.phase = "partial"

RoleCreates == CallsOf(PhaseLog, {"create_role"})

\* The case of C1: no role ref at the start of partial_setup, the first two
\* role creations succeeded and the third failed.
C1_Case ==
    /\ PartialReturned
    /\ \A f \in RoleFieldSet : ~IsSome(pre.phase_config[f])
    /\ Len(RoleCreates) >= 3
    /\ RoleCreates[1].ok /\ RoleCreates[2].ok /\ ~RoleCreates[3].ok

\* C1 as stated: when the third of the four role creations fails, the two
\* roles created before it are deleted, no create or delete is issued for
\* the fourth role, and config's four role fields equal their pre-call values.
C1_AllOrNothing ==
    C1_Case =>
        /\ \A k \in {1, 2} : \E i \in 1..Len(PhaseLog) :
              /\ PhaseLog[i].op = "delete_role"
              /\ PhaseLog[i].id = RoleCreates[k].id
              /\ PhaseLog[i].ok
        /\ \A i \in 1..Len(PhaseLog) :
              /\ PhaseLog[i].what # "player_role_id"
              /\ PhaseLog[i].op = "delete_role" =>
                    PhaseLog[i].id \in {RoleCreates[1].id, RoleCreates[2].id}
        /\ \A f \in RoleFieldSet : config[f] = pre.phase_config[f]

\* C1, amended: when the third of the four role creations fails, the fourth
\* creation is still attempted; the roles created in this run are then
\* deleted in creation order, the sweep ending at the first delete that
\* fails (the phase then returns setup__rollback_failed, otherwise the
\* collected errors); no other call is made and config is left as it was.
C1_CreatedRolesSwept ==
    C1_Case =>
        LET dels == CallsOf(PhaseLog, DeleteOps)
            made == SelectSeq(RoleCreates, LAMBDA c : c.ok)
        IN  /\ Len(RoleCreates) = 4
            /\ \A k \in 1..4 : RoleCreates[k].what = RoleFields[k]
            /\ Len(dels) <= Len(made)
            /\ \A i \in 1..Len(dels) :
                  /\ dels[i].op = "delete_role"
                  /\ dels[i].id = made[i].id
                  /\ i < Len(dels) => dels[i].ok
            /\ IF \A i \in 1..Len(dels) : dels[i].ok
               THEN /\ Len(dels) = Len(made)
                    /\ \A i \in 1..Len(made) : made[i].id \notin roles
                    /\ loc.result = [ok |-> FALSE, key |-> loc.errors]
                    /\ "setup__spectator_role_not_created" \in Range(loc.errors)
               ELSE loc.result = [ok |-> FALSE, key |-> <<"setup__rollback_failed">>]
            /\ \A i \in 1..Len(PhaseLog) : PhaseLog[i].op \in {"create_role", "delete_role"}
            /\ config = pre.phase_config

\* C1 witness: the third creation failed, the fourth succeeded, and the
\* three created roles were deleted.
C1_Witness ==
    /\ C1_Case
    /\ Len(RoleCreates) = 4 /\ RoleCreates[4].ok
    /\ Len(CallsOf(PhaseLog, DeleteOps)) = 3
    /\ \A i \in 1..Len(PhaseLog) : PhaseLog[i].op = "delete_role" => PhaseLog[i].ok

\* C2 as stated: when partial_setup, complementary_setup or full_setup
\* returns an error, every role and channel that was on the platform when
\* the run started is still there.
C2_PreexistingSurvive ==
    (pc \in {"ps_return", "cs_return", "fs_return"} /\ ~loc.result.ok) =>
        /\ pre.roles \subseteq roles
        /\ pre.channels \subseteq channels

\* The case of C3: this Partial Setup run follows a successful Partial Setup
\* run whose config was stored, nothing changed on the platform in between,
\* and every call of this run succeeded.
C3_Case ==
    /\ PartialReturned
    /\ loc.setup_type = "PartialSetup"
    /\ pre.prev.ok /\ pre.prev.setup_type = "PartialSetup" /\ pre.prev.stored
    /\ pre.config = pre.prev.config
    /\ pre.roles = pre.prev.roles /\ pre.channels = pre.prev.channels
    /\ \A i \in 1..Len(log) : log[i].ok

\* C3: a second Partial Setup in succession, with every call succeeding and
\* no external change in between, issues no create call and leaves every
\* field of config as the first run left it.
C3_Idempotent ==
    C3_Case =>
        /\ CallsOf(PhaseLog, CreateOps) = <<>>
        /\ config = pre.prev.config
        /\ loc.result.ok
        /\ roles = pre.roles /\ channels = pre.channels

\* C3 witness: the second run has returned and fetched its five resources.
C3_Witness ==
    /\ C3_Case
    /\ Len(CallsOf(PhaseLog, {"get_guild_role"})) = 4
    /\ Len(CallsOf(PhaseLog, {"get_channel"})) = 1

\* The stored role refs whose role was gone when the run started.
C4_Missing == {f \in RoleFieldSet : pre.phase_config[f].id \notin pre.roles}

\* The case of C4: four stored role refs, exactly one of them gone from the
\* platform, the roads category still there, and no call failing but the
\* fetch of the missing role.
C4_Case ==
    /\ PartialReturned
    /\ \A f \in RoleFieldSet : IsSome(pre.phase_config[f])
    /\ Cardinality(C4_Missing) = 1
    /\ IsSome(pre.phase_config["road_category_id"])
    /\ pre.phase_config["road_category_id"].id \in pre.channels
    /\ \A i \in 1..Len(PhaseLog) :
          ~PhaseLog[i].ok => PhaseLog[i].op = "get_guild_role" /\ PhaseLog[i].what \in C4_Missing

\* C4: when exactly one stored role id is gone from the platform, Partial
\* Setup issues exactly one role create call, for that tier, stores the new
\* id in that field, and leaves the other three role fields and the roads
\* category field unchanged.
C4_OneReplacement ==
    C4_Case =>
        /\ Len(RoleCreates) = 1
        /\ RoleCreates[1].what \in C4_Missing
        /\ RoleCreates[1].ok
        /\ RoleCreates[1].id \notin pre.roles
        /\ config[RoleCreates[1].what] = Id(RoleCreates[1].id, "Role")
        /\ \A f \in RoleFieldSet \ C4_Missing : config[f] = pre.phase_config[f]
        /\ config["road_category_id"] = pre.phase_config["road_category_id"]
        /\ CallsOf(PhaseLog, {"create_channel"}) = <<>>
        /\ loc.result.ok

\* C4 witness: the run has returned with the replacement role on the platform.
C4_Witness ==
    /\ C4_Case
    /\ \E f \in C4_Missing : config[f].id \in roles /\ config[f] # pre.phase_config[f]

\* C9 as stated: Server::rollback, run against the snapshot _setup took,
\* issues no delete call for an id the platform does not hold.
C9_NoDeleteOfMissingId ==
    [][(pc = "cs_rollback" /\ pc' = "cs_return") =>
         \A i \in (Len(log) + 1)..Len(log') :
            IF log'[i].op = "delete_role" THEN log'[i].id \in roles
            ELSE log'[i].id \in channels]_vars

---------------------------------------------------------------------------
(* Claims about the confirmation gate, under SpecGate *)

\* C10 as stated: with any reference field of the loaded config populated,
\* the dispatch is reached only through the gate and the user's choice to
\* continue; the gate is skipped only when every reference field is None.
C10_GateOnAnyField ==
    pc = "dispatch" =>
        IF \E f \in RefFieldSet : IsSome(config[f])
        THEN loc.gate = "continued"
        ELSE loc.gate = "none"

---------------------------------------------------------------------------
(* Claims about the orchestrator _setup, under Spec *)

\* The calls that change the platform or the store.
MutationOps ==
    {"create_role", "create_channel", "delete_role", "delete_channel",
     "reorder_roles", "reorder_channels", "update"}

LastCall == log[Len(log)]

\* The invocation ended in the timeout branch of the gate.
TimedOut ==
    /\ pc = "idle" /\ pre.op = "_setup" /\ Len(log) > 0
    /\ LastCall.op = "message_delete" /\ LastCall.arg = "timeout"

\* C11 as stated: when the gate times out, _setup returns the timeout error
\* and has issued no create, delete, reorder or update call.
C11_TimeoutNoMutation ==
    TimedOut =>
        /\ ret = Err("setup__server_already_setup_timeout")
        /\ CallsOf(log, MutationOps) = <<>>
        /\ store.server = pre.config

\* C11, amended: when the gate times out, _setup has issued no create,
\* delete, reorder or update call and the store is unchanged; it returns the
\* timeout error when the removal of the prompt succeeds, and the error of
\* that removal when it fails.
C11_TimeoutNoMutationAnyReturn ==
    TimedOut =>
        /\ ret = (IF LastCall.ok THEN Err("setup__server_already_setup_timeout")
                  ELSE Err("serenity_error"))
        /\ CallsOf(log, MutationOps) = <<>>
        /\ store.server = pre.config
        /\ loc.gate = "shown"

\* C11 witness: the prompt was shown, timed out and was removed.
C11_Witness ==
    /\ TimedOut
    /\ LastCall.ok
    /\ \E i \in 1..Len(log) : log[i].op = "send" /\ log[i].ok
    /\ ret = Err("setup__server_already_setup_timeout")

\* The invoking user pressed cancel at the gate.
CancelChosen ==
    /\ pc = "idle" /\ pre.op = "_setup"
    /\ \E i \in 1..Len(log) : log[i].op = "defer" /\ log[i].arg = "cancel"

\* The calls of the gate that follow the user's choice.
ChoiceCalls == CallsOf(log, {"defer", "message_edit", "message_delete"})

NotFound ==
    /\ pc = "idle" /\ pre.op = "_setup"
    /\ ~store.present
    /\ Len(log) > 0 /\ log[1].op = "get_server_by_id" /\ log[1].ok

\* C13: when the store has no document for the invoking guild, _setup
\* returns setup__server_not_found after the lookup alone: no listing, no
\* prompt, no create, delete or reorder call and no update is issued.
C13_NotFoundTouchesNothing ==
    NotFound =>
        /\ ret = Err("setup__server_not_found")
        /\ Len(log) = 1
        /\ roles = pre.roles /\ channels = pre.channels
        /\ store.server = DefaultServer

\* C13 witness: the lookup found nothing and the error was returned.
C13_Witness ==
    /\ NotFound
    /\ ret = Err("setup__server_not_found")
    /\ budget.runs < MaxRuns

\* The dispatched phase returned to _setup and the invocation ended.
DispatchReturned ==
    /\ pc = "idle" /\ pre.op = "_setup"
    /\ pre.phase # "none"
    /\ ret # Err("panic")

FinalUpdates == SelectSeq(log, LAMBDA c : c.op = "update" /\ c.what = "_setup")

\* C14: once the dispatched phase has returned, Ok or Err, _setup issues
\* exactly one more update, as its last call and after every call of the
\* phase; it saves the config as the phase left it, and only then maps the
\* phase's result to setup_server__success or setup_server__failed (a
\* failed save returns its own error).
C14_FinalSaveAlways ==
    DispatchReturned =>
        /\ Len(FinalUpdates) = 1
        /\ LastCall.op = "update" /\ LastCall.what = "_setup"
        /\ LastCall.ok => store.server = config
        /\ ret = (IF ~LastCall.ok THEN Err("mongodb_error")
                  ELSE IF loc.result.ok THEN Ok("setup_server__success")
                  ELSE Err("setup_server__failed"))

\* C14 witness: the phase failed after Server::rollback had run, and the
\* final save stored what config held.
C14_Witness ==
    /\ DispatchReturned
    /\ ~loc.result.ok
    /\ \E i \in 1..Len(log) : log[i].arg = "rollback"
    /\ LastCall.ok /\ store.server = config
    /\ ret = Err("setup_server__failed")

\* The case of C15: a Full Setup invocation on a fresh stored config has
\* ended and every call it issued succeeded.
FreshFullAllOk ==
    /\ pc = "idle" /\ pre.op = "_setup"
    /\ store.present
    /\ loc.setup_type = "FullSetup"
    /\ \A f \in RefFieldSet : ~IsSome(pre.config[f])
    /\ Len(log) > 1
    /\ \A i \in 1..Len(log) : log[i].ok

\* C15: on a fresh config with every call succeeding, a Full Setup
\* invocation ends with every role, category and channel reference field
\* populated with the id its creation returned, saved in the store, after
\* exactly one role reorder, one channel reorder and three updates (one by
\* each phase and the final one of _setup).
C15_EndToEndSuccess ==
    FreshFullAllOk =>
        /\ \A f \in RefFieldSet : IsSome(config[f])
        /\ \A f \in RollbackFieldSet : \E i \in 1..Len(log) :
              /\ log[i].op \in CreateOps
              /\ log[i].what = f
              /\ config[f] = Id(log[i].id, KindOf(f))
        /\ config["everyone_role_id"] = Id(EveryoneRole, "Role")
        /\ Len(CallsOf(log, CreateOps)) = Len(RollbackFields)
        /\ Len(CallsOf(log, {"reorder_roles"})) = 1
        /\ Len(CallsOf(log, {"reorder_channels"})) = 1
        /\ Len(CallsOf(log, {"update"})) = 3
        /\ LET ups == CallsOf(log, {"update"})
           IN  /\ ups[1].what = "partial_setup"
               /\ ups[2].what = "complementary_setup"
               /\ ups[3].what = "_setup"
        /\ CallsOf(log, DeleteOps) = <<>>
        /\ store.server = config
        /\ ret = Ok("setup_server__success")

\* C15 witness: such an invocation has ended with the wiki channel stored.
C15_Witness ==
    /\ FreshFullAllOk
    /\ IsSome(store.server["rp_wiki_channel_id"])
    /\ Len(CallsOf(log, {"update"})) = 3

---------------------------------------------------------------------------
(* Claims about full_setup and complementary_setup, under Spec *)

FullReturned == pc = "fs_return"

JoinCalls == SelectSeq(log, LAMBDA c : c.arg = "join_all")

\* The fields partial_setup provisions.
PartialFields == RoleFieldSet \cup {"road_category_id"}

\* The case of C16: Full Setup on a fresh config, partial_setup succeeded, a
\* creation of complementary_setup failed, and full_setup is returning.
C16_Case ==
    /\ FullReturned
    /\ \A f \in RefFieldSet : ~IsSome(pre.config[f])
    /\ loc.partial_setup_result.ok
    /\ ~loc.result.ok
    /\ pre.phase = "complementary"
    /\ \E i \in 1..Len(PhaseLog) : PhaseLog[i].op = "create_channel" /\ ~PhaseLog[i].ok

\* C16 as stated: the four roles and the roads category of partial_setup
\* are still on the platform and in config when full_setup returns, and
\* only resources created by complementary_setup were deleted.
C16_PartialUntouched ==
    C16_Case =>
        /\ \A f \in RoleFieldSet : config[f].id \in roles
        /\ config["road_category_id"].id \in channels
        /\ \A f \in PartialFields : config[f] = pre.phase_config[f]
        /\ \A i \in 1..Len(log) :
              log[i].op \in DeleteOps =>
                 \A f \in PartialFields : log[i].id # pre.phase_config[f].id

\* C16, amended: when complementary_setup fails in a Full Setup on a fresh
\* config, full_setup issues one delete for each of the four roles and for
\* the roads category partial_setup returned, all joined and their results
\* dropped; such a resource stays on the platform only if its delete
\* failed; config keeps the ids of the deleted resources, except in a field
\* that Server::rollback deleted itself, which holds None; every delete of
\* the run targets a resource the run created.
C16_PartialDeleted ==
    C16_Case =>
        LET pr == loc.partial_setup_result
            created == {log[i].id : i \in {j \in 1..Len(log) : log[j].op \in CreateOps /\ log[j].ok}}
        IN  /\ Len(JoinCalls) = 5
            /\ \A k \in 1..4 :
                  /\ JoinCalls[k].op = "delete_role"
                  /\ JoinCalls[k].id = pr.roles[k]
                  /\ pr.roles[k] = pre.phase_config[RoleFields[k]].id
                  /\ pr.roles[k] \in roles => ~JoinCalls[k].ok
            /\ JoinCalls[5].op = "delete_channel"
            /\ JoinCalls[5].id = pre.phase_config["road_category_id"].id
            /\ JoinCalls[5].id \in channels => ~JoinCalls[5].ok
            /\ \A f \in PartialFields :
                  \/ config[f] = pre.phase_config[f]
                  \/ /\ config[f] = None
                     /\ \E i \in 1..Len(log) :
                           log[i].arg = "rollback" /\ log[i].what = f /\ log[i].ok
            /\ \A i \in 1..Len(log) : log[i].op \in DeleteOps => log[i].id \in created

\* C16 witness: all five deletes succeeded and config still holds the id of
\* the deleted admin role.
C16_Witness ==
    /\ C16_Case
    /\ Len(JoinCalls) = 5 /\ \A k \in 1..5 : JoinCalls[k].ok
    /\ IsSome(config["admin_role_id"])
    /\ config["admin_role_id"].id \notin roles

ComplementaryReturned == pc = "cs_return" /\ pre.phase = "complementary"

\* The nine fields complementary_setup provisions.
ComplementaryFields == Range(CategoryFields) \cup Range(ChannelFields)

\* The case of C17: complementary_setup is returning after the creation of
\* one of its six channels failed.
C17_Case ==
    /\ ComplementaryReturned
    /\ \E i \in 1..Len(PhaseLog) :
          /\ PhaseLog[i].op = "create_channel" /\ ~PhaseLog[i].ok
          /\ PhaseLog[i].what \in Range(ChannelFields)

\* C17 as stated, read with every compensating delete succeeding: after a
\* failed channel resolution the phase has issued no channel reorder and no
\* update, every category and channel it created is gone, and each of
\* config's nine category and channel fields equals the snapshot's value.
C17_ChannelFailureReverts ==
    (C17_Case /\ \A i \in 1..Len(PhaseLog) : PhaseLog[i].op \in DeleteOps => PhaseLog[i].ok) =>
        /\ CallsOf(PhaseLog, {"reorder_channels", "update"}) = <<>>
        /\ \A i \in 1..Len(PhaseLog) :
              (PhaseLog[i].op = "create_channel" /\ PhaseLog[i].ok) => PhaseLog[i].id \notin channels
        /\ \A f \in ComplementaryFields : config[f] = snapshot[f]

\* C18 as stated: when a category creation of complementary_setup fails,
\* every category the phase created earlier in the run has been deleted by
\* the time the phase returns its error.
C18_CategoriesRolledBack ==
    (/\ ComplementaryReturned
     /\ \E i \in 1..Len(PhaseLog) :
           /\ PhaseLog[i].op = "create_channel" /\ ~PhaseLog[i].ok
           /\ PhaseLog[i].what \in Range(CategoryFields)) =>
        \A i \in 1..Len(PhaseLog) :
           (PhaseLog[i].op = "create_channel" /\ PhaseLog[i].ok) =>
              /\ PhaseLog[i].id \notin channels
              /\ \E j \in (i + 1)..Len(PhaseLog) :
                    PhaseLog[j].op = "delete_channel" /\ PhaseLog[j].id = PhaseLog[i].id


---------------------------------------------------------------------------
(* Claims about full_setup in both revisions, under Spec and SpecHandler *)

\* full_setup is about to return: full_setup.rs 59-91, or handler.rs 378
\* once the join has completed.
FullSetupReturning == FullReturned \/ (pc = "h_reply" /\ loc.full)

\* partial_setup has returned to full_setup, with success.
PartialReturnedOk ==
    /\ loc.partial_setup_result.key # <<>>
    /\ loc.partial_setup_result.ok

\* complementary_setup has been started: its first step of
\* complementary_setup.rs has been reached, or the stub of handler.rs has been
\* polled by the join.
ComplementaryStarted ==
    \/ pre.phase = "complementary"
    \/ loc.h_next = "stub_done"

\* C19: Full Setup runs Partial Setup strictly before Complementary Setup and
\* short-circuits.  When Partial Setup failed, Full Setup returns exactly
\* Partial Setup's error and Complementary Setup was never started; and
\* whenever Complementary Setup has been started, Partial Setup had returned
\* success.
C19_ShortCircuit ==
    /\ (FullSetupReturning /\ loc.partial_setup_result.key # <<>>
                           /\ ~loc.partial_setup_result.ok)
          => /\ loc.result = [ok |-> FALSE, key |-> loc.partial_setup_result.key]
             /\ ~ComplementaryStarted
    /\ (loc.full /\ pc # "idle" /\ ComplementaryStarted) => PartialReturnedOk

\* The first half of C19 alone: the value full_setup returns after a failed
\* Partial Setup.
C19_ReturnsPartialError ==
    (FullSetupReturning /\ loc.partial_setup_result.key # <<>>
                        /\ ~loc.partial_setup_result.ok)
        => loc.result = [ok |-> FALSE, key |-> loc.partial_setup_result.key]

\* A state of C19's case in full_setup.rs: Partial Setup failed on a role
\* creation and full_setup is returning.
C19_CaseCurrent ==
    /\ FullReturned
    /\ ~loc.partial_setup_result.ok
    /\ loc.partial_setup_result.key = <<"setup__admin_role_not_created">>

---------------------------------------------------------------------------
(* Claims about the compensating delete loops, under Spec *)

\* A phase is returning to its caller.
PhaseReturned == PartialReturned \/ ComplementaryReturned

\* The deletes the returning phase issued from its own loops.
LoopDeletes == SelectSeq(PhaseLog, LAMBDA c : c.op \in DeleteOps /\ c.arg = "loop")

\* The case of C20: the phase failed for an original reason, loc.after, and
\* a compensating delete of its loop failed too.
C20_Case ==
    /\ PhaseReturned
    /\ ~loc.result.ok
    /\ \E i \in 1..Len(LoopDeletes) : ~LoopDeletes[i].ok

\* Every resource the phase created has had its delete attempted.
SweepComplete ==
    \A i \in 1..Len(PhaseLog) :
        (PhaseLog[i].op \in CreateOps /\ PhaseLog[i].ok)
            => \E j \in 1..Len(LoopDeletes) : LoopDeletes[j].id = PhaseLog[i].id

\* The original reasons whose loops only log a failed delete
\* (partial_setup.rs 205-216, 249-259, 278-301).
SwallowedReasons ==
    { <<"setup__reorder_went_wrong">>, <<"setup__road_category_not_created">>,
      <<"setup__server_update_failed">> }

C20_WitnessSwallowed ==
    /\ C20_Case
    /\ PartialReturned
    /\ loc.after = <<"setup__reorder_went_wrong">>
    /\ loc.result.key = loc.after
    /\ Len(LoopDeletes) >= 2

\* A failed delete in a loop of complementary_setup.
C20_WitnessComplementary ==
    /\ C20_Case
    /\ ComplementaryReturned
    /\ loc.after = <<"setup__server_update_failed">>

---------------------------------------------------------------------------
(* Claims about a failed persist, under Spec *)

\* The case of C21: the phase's own server.update() failed and the phase is
\* returning.
PersistFailed ==
    /\ PhaseReturned
    /\ \E i \in 1..Len(PhaseLog) : PhaseLog[i].op = "update" /\ ~PhaseLog[i].ok

\* The ids the returning phase created.
PhaseCreated ==
    { PhaseLog[i].id : i \in { j \in 1..Len(PhaseLog) :
                                 PhaseLog[j].op \in CreateOps /\ PhaseLog[j].ok } }

C21_WitnessComplementary ==
    /\ PersistFailed
    /\ ComplementaryReturned
    /\ ~SweepComplete

---------------------------------------------------------------------------
(* Claims about the role reorder call, under Spec *)

\* The reorder calls Partial Setup issued.
RoleReorders == CallsOf(PhaseLog, {"reorder_roles"})

\* The ids a position list names.
Listed(positions) == { positions[i].id : i \in 1..Len(positions) }

\* The five entries of the claim, from the fields Partial Setup wrote.
ManagedPositions ==
    << [id |-> config["admin_role_id"].id, position |-> 4],
       [id |-> config["moderator_role_id"].id, position |-> 3],
       [id |-> config["spectator_role_id"].id, position |-> 2],
       [id |-> config["player_role_id"].id, position |-> 1],
       [id |-> BotRole, position |-> 5] >>

\* The roles of the server before the run that are neither the everyone
\* role, nor the bot's role, nor a managed role.
OtherRoles ==
    pre.roles \ ({EveryoneRole, BotRole} \cup { config[f].id : f \in RoleFieldSet })

\* C22 as stated: a successful Partial Setup submitted exactly one role
\* reorder call; its list assigns Admin=4, Moderator=3, Spectator=2, Player=1
\* and the bot's role=5, and also names every other pre-existing role except
\* the everyone role, at a position above all managed roles.
C22_ReorderListShiftsOthers ==
    (PartialReturned /\ loc.result.ok) =>
        /\ Len(RoleReorders) = 1
        /\ \A i \in 1..5 : \E j \in 1..Len(RoleReorders[1].positions) :
              RoleReorders[1].positions[j] = ManagedPositions[i]
        /\ \A r \in OtherRoles :
              \E j \in 1..Len(RoleReorders[1].positions) :
                 /\ RoleReorders[1].positions[j].id = r
                 /\ RoleReorders[1].positions[j].position > 5

\* C22 as the code has it: a successful Partial Setup submitted exactly one
\* role reorder call, whose list is exactly Admin=4, Moderator=3,
\* Spectator=2, Player=1, bot's role=5; it names no other role.
C22_ReorderListIsTheFive ==
    (PartialReturned /\ loc.result.ok) =>
        /\ Len(RoleReorders) = 1
        /\ RoleReorders[1].ok
        /\ RoleReorders[1].positions = ManagedPositions
        /\ OtherRoles \cap Listed(RoleReorders[1].positions) = {}

\* A successful Partial Setup in a server that holds another role, one tier
\* reused from a stored id and one created.
C22_Witness ==
    /\ PartialReturned /\ loc.result.ok
    /\ OtherRoles # {}
    /\ \E i \in 1..Len(PhaseLog) : PhaseLog[i].op = "create_role" /\ PhaseLog[i].ok
    /\ \E i \in 1..Len(PhaseLog) : PhaseLog[i].op = "get_guild_role" /\ PhaseLog[i].ok

---------------------------------------------------------------------------
(* Claims about the channel reorder call, under Spec *)

\* The channel reorder calls of the run.
ChannelReorders == CallsOf(log, {"reorder_channels"})

\* C23: the list Complementary Setup submits places the Admin, Non-RP, RP and
\* Roads categories at positions 0, 1, 2 and 3, names no managed category
\* twice, and gives every other channel of the guild a position after 3, no
\* two of them the same position.
C23_ChannelOrder ==
    \A c \in 1..Len(ChannelReorders) :
        LET order == ChannelReorders[c].positions
            managed == << config["admin_category_id"].id, config["nrp_category_id"].id,
                          config["rp_category_id"].id, config["road_category_id"].id >>
        IN  /\ Len(order) >= 4
            /\ \A k \in 1..4 : order[k] = [id |-> managed[k], position |-> k - 1]
            /\ \A i, j \in 1..Len(order) : i # j => order[i].id # order[j].id
            /\ \A i \in 5..Len(order) : order[i].position > 3
            /\ \A i, j \in 5..Len(order) : i # j => order[i].position # order[j].position

\* The part of C23 the code satisfies: the four categories lead the list at
\* positions 0 to 3, no id is listed twice, and every other channel is given
\* the position 4.
C23_OthersAllAtFour ==
    \A c \in 1..Len(ChannelReorders) :
        LET order == ChannelReorders[c].positions
            managed == << config["admin_category_id"].id, config["nrp_category_id"].id,
                          config["rp_category_id"].id, config["road_category_id"].id >>
        IN  /\ Len(order) >= 4
            /\ \A k \in 1..4 : order[k] = [id |-> managed[k], position |-> k - 1]
            /\ \A i, j \in 1..Len(order) : i # j => order[i].id # order[j].id
            /\ \A i \in 5..Len(order) : order[i].position = 4

---------------------------------------------------------------------------
(* Claims about a failed channel reorder, under Spec *)

\* The case of C24: Complementary Setup is returning and its channel reorder
\* call failed.
C24_Case ==
    /\ ComplementaryReturned
    /\ \E i \in 1..Len(PhaseLog) : PhaseLog[i].op = "reorder_channels" /\ ~PhaseLog[i].ok

\* C24: a failed channel reorder is not fatal.  The call that follows it is
\* the phase's ConfigStore.update; when that update succeeded the phase
\* issued no delete and returns the success token.
C24_ReorderFailureNotFatal ==
    C24_Case =>
        \E i \in 1..Len(PhaseLog) - 1 :
            /\ PhaseLog[i].op = "reorder_channels" /\ ~PhaseLog[i].ok
            /\ PhaseLog[i + 1].op = "update"
            /\ PhaseLog[i + 1].ok =>
                  /\ CallsOf(PhaseLog, DeleteOps) = <<>>
                  /\ loc.result = [ok |-> TRUE, key |-> <<"setup__setup_success_message">>]
                  /\ store.server = config

\* The reorder failed, the update succeeded, success is returned.
C24_Witness ==
    /\ C24_Case
    /\ loc.result.ok
    /\ \E i \in 1..Len(PhaseLog) : PhaseLog[i].op = "update" /\ PhaseLog[i].ok

---------------------------------------------------------------------------
(* Claims about the universe and server collections, under SpecUniverse *)

\* C25: after any sequence of create_universe and add_server invocations,
\* interleaved ones included, the store holds at most one server document
\* per guild.
C25_OneServerPerGuild ==
    \A g \in UvGuilds : Cardinality(GuildServers(store, g)) <= 1

\* C25 where the unique index was created at startup.
C25_OneServerPerGuildWhenIndexed ==
    store.index => \A g \in UvGuilds : Cardinality(GuildServers(store, g)) <= 1

\* Under the index, the second of two interleaved inserts for one guild has
\* been refused.
C25_IndexRefuses ==
    /\ store.index
    /\ \E p \in UvSlots :
          /\ ret[p] = Err("create_universe__server_insert_failed")
          /\ GuildServers(store, loc[p].guild) # {}
          /\ budget.faults = MaxFaults

\* C26: FREE_LIMIT_UNIVERSE is the maximum number of universes per creator.
\* No creator ever owns more than FREE_LIMIT_UNIVERSE universes, and a
\* create_universe invoked by a creator who owns that many has returned the
\* limit-reached error (or the error of a failed count) and inserted nothing.
C26_UniverseLimit ==
    /\ \A user \in UvCreators :
          Cardinality(CreatorUniverses(store, user)) <= FREE_LIMIT_UNIVERSE
    /\ \A p \in UvSlots :
          (loc[p].op = "create_universe" /\ loc[p].owned >= FREE_LIMIT_UNIVERSE
              /\ pc[p] \notin {"cu_limit"})
            => /\ pc[p] = "idle"
               /\ ret[p] \in { Err("create_universe__universe_limit_reached"),
                               Err("create_universe__check_universe_limit_failed") }
               /\ loc[p].universe = 0

\* What the code keeps: no creator owns more than FREE_LIMIT_UNIVERSE + 1
\* universes as long as invocations of one creator do not interleave.
C26_LimitPlusOneSequential ==
    (\A p \in UvSlots : p # 1 => loc[p].op = "none")
        => \A user \in UvCreators :
              Cardinality(CreatorUniverses(store, user)) <= FREE_LIMIT_UNIVERSE + 1

\* C26's first half for invocations of one creator that run one after the
\* other with no call failing.
C26_LimitSequentialNoFault ==
    ((\A p \in UvSlots : p # 1 => loc[p].op = "none") /\ budget.faults = MaxFaults)
        => \A user \in UvCreators :
              Cardinality(CreatorUniverses(store, user)) <= FREE_LIMIT_UNIVERSE

---------------------------------------------------------------------------
(* Claims about the record left in the store, under Spec *)

\* _setup has returned an error (a panic is no return).
SetupReturnedError ==
    /\ pc = "idle"
    /\ pre.op = "_setup"
    /\ ~ret.ok
    /\ ret.key # "panic"

\* The ids this invocation deleted on the platform.
DeletedInRun ==
    { log[i].id : i \in { j \in 1..Len(log) : log[j].op \in DeleteOps /\ log[j].ok } }

\* C27: after _setup has terminated with an error, no populated reference
\* field of the stored record names a resource this invocation deleted.
C27_StoredRefsNotDeleted ==
    SetupReturnedError =>
        \A f \in RefFieldSet :
            IsSome(store.server[f]) => store.server[f].id \notin DeletedInRun

\* C27 for the fields Partial Setup manages, in a Partial Setup run.
C27_PartialStoredRefsNotDeleted ==
    (SetupReturnedError /\ ~loc.full) =>
        \A f \in PartialFields :
            IsSome(store.server[f]) => store.server[f].id \notin DeletedInRun

---------------------------------------------------------------------------
(* Claims about the failure paths of partial_setup, under Spec *)

\* The case of C28: Partial Setup is returning and one of its four role
\* resolutions failed, that is, a role creation failed.
C28_Case ==
    /\ PartialReturned
    /\ \E i \in 1..Len(RoleCreates) : ~RoleCreates[i].ok

\* C28: when a role resolution failed, Partial Setup issued no role reorder
\* call, no roads-category fetch or create call and no ConfigStore.update
\* call, and config's role and roads-category fields are as at entry.
C28_RoleFailureStopsPhase ==
    C28_Case =>
        /\ CallsOf(PhaseLog, {"member", "reorder_roles", "get_channel",
                              "create_channel", "update"}) = <<>>
        /\ \A f \in PartialFields \cup {"everyone_role_id"} : config[f] = pre.phase_config[f]
        /\ ~loc.result.ok

\* A role was created, a later creation failed, and the phase returns.
C28_Witness ==
    /\ C28_Case
    /\ \E i \in 1..Len(RoleCreates) : RoleCreates[i].ok
    /\ loc.result.key = <<"setup__player_role_not_created">>

\* The case of C29: Partial Setup is returning and its role reorder call
\* failed.
C29_Case ==
    /\ PartialReturned
    /\ \E i \in 1..Len(PhaseLog) : PhaseLog[i].op = "reorder_roles" /\ ~PhaseLog[i].ok

\* The roles Partial Setup created in this run.
CreatedRoles ==
    { RoleCreates[i].id : i \in { j \in 1..Len(RoleCreates) : RoleCreates[j].ok } }

\* C29: when the role reorder call failed, every role created in this run has
\* had a delete issued and no other resource has, the roads category was
\* neither fetched nor created, ConfigStore.update was not called, config's
\* fields are unchanged and the reorder failure is returned.
C29_ReorderFailureSweeps ==
    C29_Case =>
        LET dels == CallsOf(PhaseLog, DeleteOps)
        IN  /\ \A r \in CreatedRoles : \E i \in 1..Len(dels) :
                  dels[i].op = "delete_role" /\ dels[i].id = r
            /\ \A i \in 1..Len(dels) : dels[i].op = "delete_role" /\ dels[i].id \in CreatedRoles
            /\ CallsOf(PhaseLog, {"get_channel", "create_channel", "update"}) = <<>>
            /\ config = pre.phase_config
            /\ loc.result = [ok |-> FALSE, key |-> <<"setup__reorder_went_wrong">>]

\* The reorder failed in a run that created one role and found another by
\* live fetch.
C29_Witness ==
    /\ C29_Case
    /\ CreatedRoles # {}
    /\ \E i \in 1..Len(PhaseLog) : PhaseLog[i].op = "get_guild_role" /\ PhaseLog[i].ok

---------------------------------------------------------------------------
(* Claims about the fields a successful phase leaves, under Spec *)

\* The field names a resource of its kind that the platform holds.
LiveRef(f) ==
    /\ IsSome(config[f])
    /\ IF f \in RoleFieldSet THEN config[f].id \in roles ELSE config[f].id \in channels

\* The field held, when the phase started, an id the platform did not hold.
StaleAtEntry(f) ==
    /\ IsSome(pre.phase_config[f])
    /\ pre.phase_config[f].id \notin (roles \cup channels \cup DeletedInRun)

\* A phase is returning success.
PhaseSucceeded ==
    /\ PhaseReturned
    /\ loc.result = [ok |-> TRUE, key |-> <<"setup__setup_success_message">>]

\* The fields the returning phase manages.
ManagedFields == IF PartialReturned THEN PartialFields ELSE ComplementaryFields

\* C30: after a successful phase every reference field the phase manages is
\* populated with the id of a resource on the platform, and a stored id
\* whose resource had vanished has been replaced by another id.
C30_ManagedFieldsLive ==
    PhaseSucceeded =>
        \A f \in ManagedFields :
            /\ LiveRef(f)
            /\ StaleAtEntry(f) => config[f] # pre.phase_config[f]

\* A successful Partial Setup that replaced a stored role id whose role had
\* been deleted.
C30_Witness ==
    /\ PhaseSucceeded
    /\ PartialReturned
    /\ \E f \in RoleFieldSet : StaleAtEntry(f) /\ LiveRef(f)

\* A successful Complementary Setup that replaced a stale stored id.
C30_WitnessComplementary ==
    /\ PhaseSucceeded
    /\ ComplementaryReturned
    /\ \E f \in ComplementaryFields : StaleAtEntry(f) /\ LiveRef(f)

---------------------------------------------------------------------------
(* Claims about the order of creation, under Spec *)

FetchOps == {"get_guild_role", "get_channel"}

\* The positions of the phase's log, before position i, at which the
\* resource of field f was resolved: fetched live or created.
ResolvedAt(f, i) ==
    { j \in 1..(i - 1) : /\ PhaseLog[j].what = f
                         /\ PhaseLog[j].op \in FetchOps \cup CreateOps
                         /\ PhaseLog[j].ok }

\* The positions of the create calls of the channels nested under a category.
ChannelCreates ==
    { i \in 1..Len(PhaseLog) : /\ PhaseLog[i].op = "create_channel"
                               /\ PhaseLog[i].what \in Range(ChannelFields) }

\* The positions of the create calls of the roads category.
RoadCreates ==
    { i \in 1..Len(PhaseLog) : /\ PhaseLog[i].op = "create_channel"
                               /\ PhaseLog[i].what = "road_category_id" }

\* C31: dependent resources are created in dependency order.  In
\* complementary_setup a channel create call comes after the successful
\* resolution of all three categories and carries as parent the id resolved
\* in this run for its category; in partial_setup the roads category is
\* created after all four roles were resolved and the reorder succeeded.
C31_DependencyOrder ==
    /\ pre.phase = "complementary" =>
         \A i \in ChannelCreates :
            /\ \A c \in Range(CategoryFields) : ResolvedAt(c, i) # {}
            /\ \E j \in ResolvedAt(ParentField(PhaseLog[i].what), i) :
                    /\ PhaseLog[i].parent = PhaseLog[j].id
                    /\ PhaseLog[i].parent # 0
    /\ pre.phase = "partial" =>
         \A i \in RoadCreates :
            /\ \A r \in RoleFieldSet : ResolvedAt(r, i) # {}
            /\ \E j \in 1..(i - 1) : PhaseLog[j].op = "reorder_roles" /\ PhaseLog[j].ok

\* Complementary Setup created a channel under a category it created in this
\* run and another under a category it fetched.
C31_Witness ==
    /\ pre.phase = "complementary"
    /\ \E i, k \in ChannelCreates :
          /\ \E j \in ResolvedAt(ParentField(PhaseLog[i].what), i) : PhaseLog[j].op = "create_channel"
          /\ \E j \in ResolvedAt(ParentField(PhaseLog[k].what), k) : PhaseLog[j].op = "get_channel"

\* Partial Setup created the roads category.
C31_WitnessPartial ==
    /\ pre.phase = "partial"
    /\ \E i \in RoadCreates : PhaseLog[i].ok

---------------------------------------------------------------------------
(* Claims about the permissions of created roles, under SpecHandler *)

\* The positions of the log at which a role was created after the fetch of
\* its stored id had failed.
StaleRoleCreates ==
    { i \in 2..Len(log) : /\ log[i].op = "create_role"
                          /\ log[i - 1].op = "get_guild_role"
                          /\ log[i - 1].what = log[i].what
                          /\ ~log[i - 1].ok }

\* C32: a role created in place of a stale stored id receives the
\* permission set of its tier, the set the creation without a stored id
\* uses, so that only the Admin role is created with the admin set.
C32_StalePathSamePermissions ==
    \A i \in StaleRoleCreates :
        /\ log[i].arg = RolePermissions(log[i].what)
        /\ log[i].what # "admin_role_id" => log[i].arg # "AdminRolePermissions"

---------------------------------------------------------------------------
(* Claims about who decides at the confirmation gate, under SpecGate *)

Nobody == [user |-> "none", channel |-> "none"]
Invoker == [user |-> "author", channel |-> "origin"]

\* The prompt was shown and the collector has yielded no interaction yet.
Undecided == loc.gate = "shown" /\ loc.by = Nobody

\* C33: an interaction of another user, or in another channel, neither
\* continues nor cancels the setup.  The interaction the gate acts on is
\* the invoking user's in the originating channel, and as long as only
\* other interactions occurred the gate is waiting or has timed out.
C33_OthersIgnored ==
    /\ loc.by \in {Nobody, Invoker}
    /\ Undecided =>
          \/ pc = "gate_wait" /\ CallsOf(log, {"defer", "message_edit", "message_delete"}) = <<>>
          \/ TimedOut

\* Interactions of others were dropped and the gate is still waiting.
C33_Witness ==
    /\ pc = "gate_wait"
    /\ loc.ignored = MaxIgnored
    /\ Undecided

\* Interactions of others were dropped, then the invoking user continued.
C33_WitnessThenInvoker ==
    /\ loc.ignored > 0
    /\ loc.by = Invoker
    /\ loc.gate = "continued"

---------------------------------------------------------------------------
(* Claims about the choice that starts the dispatch, under SpecGate *)

\* The custom ids of the interactions the gate collected in this invocation.
CollectedIds == { log[i].arg : i \in { j \in 1..Len(log) : log[j].op = "defer" } }

\* The prompt was presented and a setup phase has started.
DispatchedAfterGate == loc.gate # "none" /\ pre.phase # "none"

\* C34: after the prompt was presented, a setup phase starts only if the
\* collected interaction is the continue choice.
C34_OnlyContinueDispatches ==
    DispatchedAfterGate => CollectedIds = {"continue"}

\* After the prompt was presented, a setup phase never starts on the cancel
\* choice, nor without a collected interaction.
C34_CancelNeverDispatches ==
    DispatchedAfterGate => CollectedIds # {} /\ "cancel" \notin CollectedIds

---------------------------------------------------------------------------
(* Claims about the termination of _setup, under Spec and SpecGateFair *)

\* The gate with its timer: the collector yields an interaction or times
\* out (setup_sub_command.rs 148-152), and every call returns.
SpecGateFair == SpecGate /\ WF_vars(GateTimeout \/ GateInteraction) /\ WF_vars(GtNext)

\* An invocation of _setup has ended.
SetupEnded == pc = "idle" /\ pre.op = "_setup" /\ ret # NoResult

\* The values _setup returns (setup_sub_command.rs 110, 155-156, 159-160,
\* 164, 177-182).
SetupOutcomes ==
    { Ok("setup_server__success"), Ok("setup_server__cancelled"),
      Err("setup__server_not_found"), Err("setup__server_already_setup_timeout"),
      Err("serenity_error"), Err("mongodb_error"), Err("setup_server__failed") }

\* C35: every invocation of _setup ends in exactly one terminal outcome, a
\* success token, the cancelled token or one error.
C35_OneOutcome ==
    /\ pc = "idle" /\ pre.op = "_setup" => ret = NoResult \/ ret \in SetupOutcomes
    /\ pc # "idle" => ret = NoResult

\* The gate does not wait forever: the invocation ends or a phase starts.
C35_GateEnds == <>(pc \in {"idle", "ps_role"})

\* No outcome is produced before the invocation ends, and an invocation that
\* ended has produced one, a returned value or a panic.
C35_OutcomeOnlyAtEnd ==
    /\ pc # "idle" => ret = NoResult
    /\ pc = "idle" /\ pre.op = "_setup" =>
          ret = NoResult \/ ret \in SetupOutcomes \cup {Err("panic")}

---------------------------------------------------------------------------
(* Claims about full_setup's deletes, under Spec *)

\* full_setup is returning the error of complementary_setup.
C36_Case ==
    /\ FullReturned
    /\ pre.phase = "complementary"
    /\ loc.partial_setup_result.ok
    /\ ~loc.result.ok

\* The resources partial_setup created in this invocation.
PartialCreated ==
    { log[i].id : i \in { j \in 1..pre.phase_log : log[j].op \in CreateOps /\ log[j].ok } }

\* The resources full_setup issued a delete for.
JoinDeleted == { JoinCalls[k].id : k \in 1..Len(JoinCalls) }

\* C36: when complementary_setup fails after partial_setup succeeded,
\* full_setup issues a delete for every role and channel partial_setup
\* created, and for nothing else, before it returns the error.
C36_DeletesWhatPartialCreated ==
    C36_Case => JoinDeleted = PartialCreated

\* full_setup issues a delete for every resource partial_setup created.
C36_DeletesAllPartialCreated ==
    C36_Case => PartialCreated \subseteq JoinDeleted

---------------------------------------------------------------------------
(* Claims about the rollback of _create_road and _create_place, under SpecCreate *)

\* The function named op has returned.
CrReturned(op) == pc = "idle" /\ pre.op = op /\ ret # NoResult

\* This invocation received ok = FALSE from the call named op.
CallFailed(op) == \E i \in 1..Len(log) : log[i].op = op /\ ~log[i].ok

\* This invocation issued a delete for the role, the channel it created.
RoleDeleteIssued ==
    \E i \in 1..Len(log) : log[i].op = "delete_role" /\ log[i].id = loc.role
ChannelDeleteIssued ==
    \E i \in 1..Len(log) : log[i].op = "delete_channel" /\ log[i].id = loc.channel

\* Nothing this invocation created is on the platform.
NothingRemains == loc.role \notin roles /\ loc.channel \notin channels

RoadRollbackSuccess ==
    { Err("create_road__create_channel_failed_rollback_success"),
      Err("create_road__insert_road_failed_rollback_success") }

\* C37: _create_road has a delete issued for the created role when the
\* channel creation fails, and for both the role and the channel when the
\* insert of the road fails, whatever the outcome of the role's delete; a
\* returned *_rollback_success error means that neither remains.
C37_RoadRollback ==
    CrReturned("_create_road") =>
        /\ CallFailed("create_channel") => RoleDeleteIssued
        /\ CallFailed("insert") => RoleDeleteIssued /\ ChannelDeleteIssued
        /\ ret \in RoadRollbackSuccess => NothingRemains

\* What _create_road does: the channel's delete follows only a successful
\* delete of the role.
C37_RoadRollbackStopsAtRole ==
    CrReturned("_create_road") =>
        /\ CallFailed("create_channel") => RoleDeleteIssued
        /\ CallFailed("insert") =>
              /\ RoleDeleteIssued
              /\ ChannelDeleteIssued <=> ~CallFailed("delete_role")
        /\ ret \in RoadRollbackSuccess => NothingRemains

\* C38: _create_place has a delete issued for the created role when the
\* category creation fails, and for both the role and the category when the
\* insert of the place fails, whatever the outcome of the role's delete;
\* create_place__rollback_complete means that nothing it created remains.
C38_PlaceRollback ==
    CrReturned("_create_place") =>
        /\ CallFailed("create_channel") => RoleDeleteIssued
        /\ CallFailed("insert") => RoleDeleteIssued /\ ChannelDeleteIssued
        /\ ret = Err("create_place__rollback_complete") => NothingRemains

\* What _create_place does: the category's delete follows only a successful
\* delete of the role.
C38_PlaceRollbackStopsAtRole ==
    CrReturned("_create_place") =>
        /\ CallFailed("create_channel") => RoleDeleteIssued
        /\ CallFailed("insert") =>
              /\ RoleDeleteIssued
              /\ ChannelDeleteIssued <=> ~CallFailed("delete_role")
        /\ ret = Err("create_place__rollback_complete") => NothingRemains

---------------------------------------------------------------------------
(* Claims about the servers of a universe, under SpecUniverse *)

\* The server documents linked to a universe.
UniverseServers(st, id) == { d \in st.servers : d.universe_id = id }

\* C39: no universe ever has more servers linked than the limit of servers
\* per universe, also when invocations of add_server interleave.
C39_ServerLimit ==
    \A u \in store.universes :
        Cardinality(UniverseServers(store, u.id)) <= FREE_LIMIT_SERVERS_PER_UNIVERSE

\* What the code keeps: the limit holds as long as invocations do not
\* interleave.
C39_ServerLimitSequential ==
    (\A p \in UvSlots : p # 1 => loc[p].op = "none") => C39_ServerLimit

---------------------------------------------------------------------------
(* Claims about what a failed _create_universe leaves, under SpecUniverse *)

\* The errors _create_universe raises between its universe insert and its
\* call of _setup (handler.rs 158-185).
EarlyErrors ==
    { Err("create_universe__universe_insert_failed"),
      Err("create_universe__setup_constraints_failed"),
      Err("create_universe__server_insert_failed"),
      Err("create_universe__speed_stat_insert_failed"),
      Err("universe_delete__failed") }

\* Invocation p of _create_universe has returned one of them.
FailedEarly(p) ==
    /\ loc[p].op = "create_universe"
    /\ pc[p] = "idle"
    /\ ret[p] \in EarlyErrors

\* The store holds the universe record invocation p inserted, the server
\* record it inserted.
UniverseLeft(p) == \E u \in store.universes : u.id = loc[p].universe
ServerLeft(p) ==
    \E d \in store.servers : d.universe_id = loc[p].universe /\ d.server_id = loc[p].guild

\* C40: when _create_universe returns an error raised before it invokes
\* _setup, the store holds neither the universe record nor the server
\* record the invocation inserted.
C40_NothingLeft ==
    \A p \in UvSlots : FailedEarly(p) => ~UniverseLeft(p) /\ ~ServerLeft(p)

\* What the code keeps: a failed universe insert has inserted nothing, and
\* after the speed-stat error the universe record is gone.
C40_NothingLeftAfterStatError ==
    \A p \in UvSlots :
        /\ (FailedEarly(p) /\ ret[p] = Err("create_universe__universe_insert_failed"))
              => loc[p].universe = 0
        /\ (FailedEarly(p) /\ ret[p] = Err("create_universe__speed_stat_insert_failed"))
              => ~UniverseLeft(p)

=========================================================================
